---------------------------- MODULE UrlFetchProofs ----------------------------
(***************************************************************************)
(* Theorems about the guarded download, for every set of hosts, addresses  *)
(* and answers, every redirect and every limit.                            *)
(*                                                                         *)
(* The argument: the name of a hop travels in the Host header, which is    *)
(* there from the first request on and set anew wherever a redirect leaves *)
(* the origin (HeaderSet), while the URL carries the pinned address from   *)
(* the check to the next redirect (Pinned).  Nothing else moves the name   *)
(* that is checked apart from the one that is asked for.                   *)
(***************************************************************************)
EXTENDS UrlFetch, TLAPS

Ongoing == {"resolve", "connect", "status", "body"}

(* From the check to the next redirect the URL names an address that was   *)
(* checked with all its companions, and the connection went there.         *)
Pinned ==
    /\ at \in {"connect", "status", "body"} =>
           /\ url.host \in Addresses /\ url.host \in ToSet(answer)
           /\ \A ip \in ToSet(answer) : ~IsBlocked(ip)
    /\ at \in {"status", "body"} => dialled = url.host
    /\ at = "drain" => dialled \in ToSet(answer) /\ \A ip \in ToSet(answer) : ~IsBlocked(ip)

(* A request under way, and one about to be sent, has a Host header. *)
HeaderSet == at \in {"send", "drain"} \cup Ongoing => header # NoHost

(* What was kept is what was sent, until the fetch ends. *)
Counted == /\ outcome # "none" => at = "ended"
           /\ at # "ended" => kept = sent
           /\ at \notin {"body", "ended"} => sent = 0

FInv == FTypeOK /\ Pinned /\ HeaderSet /\ OneNamePerHop /\ CapExact /\ Counted

USE FetchAssumption

------------------------------------------------------------------------------
(* Lemmas about what a step leaves behind. *)

(* Reaching a stage and ending keep what they do not mention. *)
LEMMA MoveTypes ==
    ASSUME FTypeOK, NEW stage \in Stages, NEW why \in Outcomes, Goto(stage) \/ EndsAs(why)
    PROVE  /\ at' \in Stages /\ outcome' \in Outcomes /\ idle' \in 0..TimeoutS
  BY DEF FTypeOK, Goto, EndsAs, Stages, Outcomes

(* A URL stays one when its host is replaced by a host, and its userinfo   *)
(* by another.                                                             *)
LEMMA UrlHost ==
    ASSUME NEW u \in Urls, NEW h \in Names \cup Addresses \cup {NoHost}, NEW b \in BOOLEAN
    PROVE  /\ [u EXCEPT !.host = h] \in Urls
           /\ [u EXCEPT !.user = b] \in Urls
           /\ [u EXCEPT !.host = h, !.user = b] \in Urls
  BY DEF Urls

(* The URL of the next hop is one, and it has a host if this one has. *)
LEMMA JoinedUrl ==
    ASSUME NEW loc \in Locations, url \in Urls
    PROVE  Joined(loc) \in Urls /\ (url.host # NoHost => Joined(loc).host # NoHost)
<1>1. CASE loc = Relative
  BY <1>1 DEF Joined
<1>2. CASE loc # Relative
  <2>1. loc \in Urls
    BY <1>2
  <2>. QED
    BY <1>2, <2>1, UrlHost DEF Joined, Urls
<1>. QED
  BY <1>1, <1>2

(* A pinned address is one of those checked. *)
LEMMA FirstOfAnswer ==
    ASSUME NEW found \in Seq(Addresses), found # << >>
    PROVE  found[1] \in Addresses /\ found[1] \in ToSet(found)
  BY DEF ToSet

(* A fetch begins with nothing sent, nothing pinned and no outcome. *)
LEMMA FetchInit == FInit => FInv
  BY DEF FInit, FInv, FTypeOK, Urls, Stages, Outcomes, Schemes, Pinned, HeaderSet,
         OneNamePerHop, CapExact, Counted, Ongoing

(* What the invariant says of a fetch that ended. *)
LEMMA EndedIsSafe ==
    ASSUME FInv, FTypeOK', NEW why \in Outcomes \ {"none", "ok", "too_large"}, EndsAs(why),
           UNCHANGED body, at # "ended"
    PROVE  FInv'
  BY DEF FInv, Pinned, HeaderSet, OneNamePerHop, CapExact, Counted, EndsAs, Ongoing, body, Outcomes

(* The check of a hop: the name it checks is the one of the Host header,   *)
(* and a literal address is pinned as it is.                               *)
LEMMA SendStep ==
    ASSUME FInv, SendHop
    PROVE  FInv'
<1>. DEFINE host == AuthorityOf(url, header)
            ending == (\E why \in {"redirects", "refused"} : EndsAs(why)) /\ UNCHANGED body
<1>1. host = header /\ host # NoHost /\ host \in Names \cup Addresses
  BY DEF SendHop, FInv, FTypeOK, HeaderSet, AuthorityOf
<1>2. [url EXCEPT !.host = host, !.user = FALSE] \in Urls
  BY <1>1, UrlHost DEF FInv, FTypeOK
<1>3. ASSUME UNCHANGED <<authority, final>> \/ (authority' = host /\ final' = [url EXCEPT !.host = host, !.user = FALSE]),
             EndsAs("redirects") \/ EndsAs("refused"), UNCHANGED <<url, header, hops, dialled, answer, body>>
      PROVE  FInv'
  <2>1. FTypeOK'
    BY <1>1, <1>2, <1>3, MoveTypes DEF FInv, FTypeOK, body, Outcomes
  <2>. QED
    BY <1>3, <2>1, EndedIsSafe DEF SendHop, Outcomes
<1>4. ASSUME authority' = host, final' = [url EXCEPT !.host = host, !.user = FALSE],
             host \in Addresses, ~IsBlocked(host), answer' = <<host>>, Pin(host),
             UNCHANGED <<header, hops, dialled, body>>
      PROVE  FInv'
  <2>1. url' \in Urls /\ url'.host = host /\ url'.scheme = url.scheme
    BY <1>1, <1>4, UrlHost DEF Pin, FInv, FTypeOK, Urls
  <2>2. final'.host = host /\ final'.scheme = url.scheme /\ final'.user = FALSE
    BY <1>4 DEF FInv, FTypeOK, Urls
  <2>3. FTypeOK'
    BY <1>1, <1>2, <1>4, <2>1 DEF Pin, Goto, FInv, FTypeOK, body, Stages
  <2>4. ToSet(answer') = {host}
    BY <1>4 DEF ToSet
  <2>. QED
    BY <1>1, <1>4, <2>1, <2>2, <2>3, <2>4
    DEF SendHop, Pin, Goto, FInv, Pinned, HeaderSet, OneNamePerHop, CapExact, Counted, Ongoing, body
<1>5. ASSUME authority' = host, final' = [url EXCEPT !.host = host, !.user = FALSE],
             Goto("resolve"), UNCHANGED <<url, header, hops, dialled, answer, body>>
      PROVE  FInv'
  <2>1. final'.host = host /\ final'.scheme = url.scheme /\ final'.user = FALSE
    BY <1>5 DEF FInv, FTypeOK, Urls
  <2>2. FTypeOK'
    BY <1>1, <1>2, <1>5 DEF Goto, FInv, FTypeOK, body, Stages
  <2>. QED
    BY <1>1, <1>5, <2>1, <2>2
    DEF SendHop, Goto, FInv, Pinned, HeaderSet, OneNamePerHop, CapExact, Counted, Ongoing, body
<1>. QED
  BY <1>3, <1>4, <1>5 DEF SendHop, body

(* An answer is used only if all of it is public; then its first address   *)
(* is pinned.                                                              *)
LEMMA ResolveStep ==
    ASSUME FInv, NEW found \in Answers, Resolve(found)
    PROVE  FInv'
<1>. found \in Seq(Addresses)
  OBVIOUS
<1>1. CASE EndsAs("refused") /\ UNCHANGED url
  <2>1. FTypeOK'
    BY <1>1, MoveTypes DEF Resolve, FInv, FTypeOK, body, Outcomes
  <2>. QED
    BY <1>1, <2>1, EndedIsSafe DEF Resolve, Outcomes
<1>2. CASE found # << >> /\ (\A ip \in ToSet(found) : ~IsBlocked(ip)) /\ Pin(found[1])
  <2>1. found[1] \in Addresses /\ found[1] \in ToSet(found)
    BY <1>2, FirstOfAnswer
  <2>2. url' \in Urls /\ url'.host = found[1] /\ url'.scheme = url.scheme
    BY <1>2, <2>1, UrlHost DEF Pin, FInv, FTypeOK, Urls
  <2>3. FTypeOK'
    BY <1>2, <2>2 DEF Resolve, Pin, Goto, FInv, FTypeOK, body, Stages
  <2>. QED
    BY <1>2, <2>1, <2>2, <2>3
    DEF Resolve, Pin, Goto, FInv, Pinned, HeaderSet, OneNamePerHop, CapExact, Counted, Ongoing, body
<1>. QED
  BY <1>1, <1>2 DEF Resolve

(* The inner transport dials the pinned address and nothing else. *)
LEMMA ConnectStep ==
    ASSUME FInv, Connect
    PROVE  FInv'
<1>1. dialled' = url.host /\ url.host \in Addresses
  BY DEF Connect, FInv, Pinned
<1>2. FTypeOK'
  BY <1>1 DEF Connect, Goto, FInv, FTypeOK, body, Stages
<1>. QED
  BY <1>1, <1>2
  DEF Connect, Goto, FInv, Pinned, HeaderSet, OneNamePerHop, CapExact, Counted, Ongoing, body

(* The first request gets its Host header from the URL asked for. *)
LEMMA FetchUrlStep ==
    ASSUME FInv, NEW u \in Requested, FetchUrl(u)
    PROVE  FInv'
<1>1. CASE EndsAs("refused") /\ UNCHANGED request
  <2>1. FTypeOK'
    BY <1>1, MoveTypes DEF FetchUrl, FInv, FTypeOK, body, request, Outcomes
  <2>. QED
    BY <1>1, <2>1, EndedIsSafe DEF FetchUrl, Outcomes
<1>2. CASE /\ u.host # NoHost /\ url' = [u EXCEPT !.user = FALSE] /\ header' = u.host /\ Goto("send")
           /\ UNCHANGED <<authority, final, hops, dialled, answer>>
  <2>1. u \in Urls /\ url' \in Urls /\ header' \in Names \cup Addresses \cup {NoHost}
    BY <1>2, UrlHost DEF Urls
  <2>2. FTypeOK'
    BY <1>2, <2>1 DEF FetchUrl, Goto, FInv, FTypeOK, body, Stages
  <2>. QED
    BY <1>2, <2>2
    DEF FetchUrl, Goto, FInv, Pinned, HeaderSet, OneNamePerHop, CapExact, Counted, Ongoing, body
<1>. QED
  BY <1>1, <1>2 DEF FetchUrl

(* A redirect within the origin keeps the Host header, any other sets it   *)
(* to the host it names: there always is one.                              *)
LEMMA RedirectStep ==
    ASSUME FInv, NEW loc \in Locations, Redirect(loc)
    PROVE  FInv'
<1>1. url \in Urls /\ url.host # NoHost
  BY DEF Redirect, FInv, FTypeOK, Pinned
<1>2. url' \in Urls /\ url'.host # NoHost
  BY <1>1, JoinedUrl DEF Redirect
<1>3. header' \in Names \cup Addresses /\ header' # NoHost
  BY <1>2 DEF Redirect, FInv, FTypeOK, HeaderSet, Ongoing, Urls
<1>4. FTypeOK'
  BY <1>2, <1>3 DEF Redirect, Goto, FInv, FTypeOK, body, Stages
<1>. QED
  BY <1>3, <1>4
  DEF Redirect, Goto, FInv, Pinned, HeaderSet, OneNamePerHop, CapExact, Counted, Ongoing, body

(* A chunk is kept exactly when it leaves the body within the cap. *)
LEMMA ChunkStep ==
    ASSUME FInv, NEW n \in ChunkSizes, Chunk(n)
    PROVE  FInv'
<1>1. n \in Nat /\ MaxBytes \in Nat /\ sent \in Nat /\ kept = sent /\ outcome = "none"
  BY DEF Chunk, FInv, FTypeOK, Counted, Outcomes
<1>2. FTypeOK'
  BY <1>1 DEF Chunk, Goto, EndsAs, request, FInv, FTypeOK, Stages, Outcomes
<1>3. CASE sent + n > MaxBytes /\ EndsAs("too_large") /\ UNCHANGED kept
  BY <1>1, <1>2, <1>3
  DEF Chunk, EndsAs, request, FInv, Pinned, HeaderSet, OneNamePerHop, CapExact, Counted, Ongoing
<1>4. CASE sent + n <= MaxBytes /\ kept' = kept + n /\ Goto("body")
  <2>1. kept' = sent' /\ kept' <= MaxBytes
    BY <1>1, <1>4 DEF Chunk
  <2>. QED
    BY <1>1, <1>2, <1>4, <2>1
    DEF Chunk, Goto, request, FInv, Pinned, HeaderSet, OneNamePerHop, CapExact, Counted, Ongoing
<1>. QED
  BY <1>3, <1>4 DEF Chunk

(* What ends a fetch without its body. *)
LEMMA EndingStep ==
    ASSUME FInv, ResolveFails \/ TransportError \/ TimesOut
                 \/ \E why \in {"http_429", "http_error"} : StatusError(why)
    PROVE  FInv'
<1>1. PICK why \in {"refused", "transport", "timeout", "http_429", "http_error"} :
          EndsAs(why) /\ UNCHANGED <<request, body>> /\ at # "ended"
  BY DEF ResolveFails, TransportError, TimesOut, StatusError, Timed
<1>2. why \in Outcomes \ {"none", "ok", "too_large"}
  BY DEF Outcomes
<1>3. FTypeOK'
  BY <1>1, <1>2, MoveTypes DEF FInv, FTypeOK, body, request
<1>. QED
  BY <1>1, <1>2, <1>3, EndedIsSafe

(* A response goes on: the body begins, is complete, or a redirect's body  *)
(* is, before the next hop.                                                *)
LEMMA SuccessStep ==
    ASSUME FInv, StatusOk \/ Complete \/ Drained
    PROVE  FInv'
<1>1. CASE StatusOk
  <2>1. FTypeOK'
    BY <1>1, MoveTypes DEF StatusOk, Stages, FInv, FTypeOK, body, request
  <2>. QED
    BY <1>1, <2>1
    DEF StatusOk, Goto, FInv, Pinned, HeaderSet, OneNamePerHop, CapExact, Counted, Ongoing, body, request
<1>2. CASE Complete
  <2>1. FTypeOK'
    BY <1>2, MoveTypes DEF Complete, Outcomes, FInv, FTypeOK, body, request
  <2>. QED
    BY <1>2, <2>1
    DEF Complete, EndsAs, FInv, Pinned, HeaderSet, OneNamePerHop, CapExact, Counted, Ongoing, body, request
<1>3. CASE Drained
  <2>1. FTypeOK'
    BY <1>3, MoveTypes DEF Drained, Stages, FInv, FTypeOK, body, request
  <2>. QED
    BY <1>3, <2>1
    DEF Drained, Goto, FInv, Pinned, HeaderSet, OneNamePerHop, CapExact, Counted, Ongoing, body, request
<1>. QED
  BY <1>1, <1>2, <1>3

(* The invariant is kept by every step of a fetch. *)
LEMMA FetchInductive == FInv /\ [FNext]_fvars => FInv'
<1>. SUFFICES ASSUME FInv, [FNext]_fvars PROVE FInv'
  OBVIOUS
<1>1. CASE \E u \in Requested : FetchUrl(u)
  BY <1>1, FetchUrlStep
<1>2. CASE SendHop
  BY <1>2, SendStep
<1>3. CASE Lookup
  BY <1>3, ResolveStep, EndingStep DEF Lookup
<1>4. CASE Connect
  BY <1>4, ConnectStep
<1>5. CASE Status
  BY <1>5, RedirectStep, EndingStep, SuccessStep DEF Status
<1>6. CASE Stream
  BY <1>6, ChunkStep, SuccessStep DEF Stream
<1>7. CASE TransportError \/ TimesOut
  BY <1>7, EndingStep
<1>8. CASE Tick \/ Trickle
  <2>1. idle' \in 0..TimeoutS /\ UNCHANGED <<at, request, body, outcome>>
    BY <1>8 DEF Tick, Trickle, FInv, FTypeOK
  <2>. QED
    BY <2>1 DEF FInv, FTypeOK, Pinned, HeaderSet, OneNamePerHop, CapExact, Counted, Ongoing, body, request
<1>9. CASE Drained
  BY <1>9, SuccessStep
<1>10. CASE UNCHANGED fvars
  BY <1>10 DEF fvars, FInv, FTypeOK, Pinned, HeaderSet, OneNamePerHop, CapExact, Counted, Ongoing, body, request
<1>. QED
  BY <1>1, <1>2, <1>3, <1>4, <1>5, <1>6, <1>7, <1>8, <1>9, <1>10 DEF FNext, Server

------------------------------------------------------------------------------
(* Theorems. *)

(* FInv is an invariant of every fetch. *)
THEOREM FetchSafe == FSpec => []FInv
  BY FetchInit, FetchInductive, PTL DEF FSpec

(* Types (fetch_url and _GuardedTransport). *)
THEOREM FetchTypeCorrect == FSpec => []FTypeOK
<1>1. FInv => FTypeOK
  BY DEF FInv
<1>. QED
  BY <1>1, FetchSafe, PTL

(* Whatever a name server answers and wherever a redirect points, the      *)
(* connection goes to an address checked for this hop, and all that were   *)
(* checked with it are public (_resolve_pinned_ip, handle_async_request).  *)
THEOREM DialledIsChecked == FSpec => []DialsCheckedAddress
<1>1. FInv => DialsCheckedAddress
  BY DEF FInv, Pinned, DialsCheckedAddress
<1>. QED
  BY <1>1, FetchSafe, PTL

(* The name checked, the name asked for and the name reported are one on   *)
(* every hop (_authority).                                                 *)
THEOREM NamesAgree == FSpec => []OneNamePerHop
<1>1. FInv => OneNamePerHop
  BY DEF FInv
<1>. QED
  BY <1>1, FetchSafe, PTL

(* The cap is exact, for every size of body and chunk (fetch_url).         *)
THEOREM CapIsExact == FSpec => []CapExact
<1>1. FInv => CapExact
  BY DEF FInv
<1>. QED
  BY <1>1, FetchSafe, PTL
=============================================================================
