------------------------------- MODULE UrlFetch -------------------------------
(***************************************************************************)
(* fetch_url of _transfer/fetch.py: one download over the HTTP client,     *)
(* whose redirect loop sends every hop back through _GuardedTransport.     *)
(* The guard resolves the authority of the hop, refuses any non-public     *)
(* answer, pins one address into the request and dials it.  Name servers   *)
(* and web servers answer as they like, differently each time.             *)
(* Ports, paths, queries and header values other than Host are left out.   *)
(***************************************************************************)
EXTENDS Naturals, Sequences, SequencesExt

CONSTANTS Names,           \* host names
          BlockedNames,    \* _BLOCKED_HOSTNAMES
          Addresses,       \* IP literals
          Global,          \* addresses with is_global
          Multicast,       \* addresses with is_multicast
          Nat64,           \* address under 64:ff9b::/96 -> the IPv4 in its low 32 bits
          Answers,         \* what a lookup may return: sequences of addresses
          Locations,       \* what a redirect may name: URLs, see Joined
          Requested,       \* the URLs callers ask for
          MaxRedirects,    \* httpx: max_redirects
          MaxBytes,        \* max_bytes
          ChunkSizes,      \* bytes of a chunk, at most _CHUNK_SIZE
          TimeoutS         \* timeout_s, given to httpx for each of its operations

NoHost     == "no_host"
NoAddress  == "no_address"
Schemes    == {"http", "https", "other"}
Allowed    == {"http", "https"}       \* _ALLOWED_SCHEMES
Urls       == [scheme : Schemes, host : Names \cup Addresses \cup {NoHost}, user : BOOLEAN]
Relative   == [scheme |-> "none", host |-> NoHost, user |-> FALSE]   \* a Location

ASSUME FetchAssumption == /\ Names \cap Addresses = {} /\ BlockedNames \subseteq Names
                          /\ NoHost \notin Names \cup Addresses /\ NoAddress \notin Addresses
                          /\ Multicast \subseteq Addresses /\ Global \subseteq Addresses
                          /\ DOMAIN Nat64 \subseteq Addresses
                          /\ \A a \in DOMAIN Nat64 : Nat64[a] \in Addresses \ DOMAIN Nat64
                          /\ Answers \subseteq Seq(Addresses)
                          /\ Requested \subseteq Urls
                          /\ Locations \subseteq Urls \cup {Relative}
                          /\ {MaxRedirects, MaxBytes, TimeoutS} \subseteq Nat
                          /\ ChunkSizes \subseteq Nat \ {0}

VARIABLES at,        \* where the fetch stands between its awaits
          url,       \* request.url
          header,    \* the host in request.headers["Host"]
          authority, \* the host the current hop was checked for; its SNI name
          final,     \* extensions[_FINAL_URL_KEY]
          hops,      \* len(history)
          dialled,   \* the address the last connection went to
          answer,    \* the addresses the last check saw
          sent,      \* bytes the server has sent of the body
          kept,      \* bytes in chunks
          outcome,   \* how the fetch ended
          idle       \* time since httpx's current operation began

request == <<url, header, authority, final, hops, dialled, answer>>
body    == <<sent, kept>>
fvars   == <<at, request, body, outcome, idle>>

Stages   == {"idle", "send", "resolve", "connect", "status", "drain", "body", "ended"}
Timed    == {"connect", "status", "drain", "body"}   \* operations httpx sets a limit to
Outcomes == {"none", "refused", "redirects", "transport", "timeout", "http_429",
             "http_error", "too_large", "ok"}

FInit == /\ at = "idle" /\ outcome = "none"
         /\ url = [scheme |-> "other", host |-> NoHost, user |-> FALSE]
         /\ header = NoHost /\ authority = NoHost /\ final = url
         /\ hops = 0 /\ dialled = NoAddress /\ answer = << >>
         /\ sent = 0 /\ kept = 0
         /\ idle = 0

Goto(stage) == at' = stage /\ idle' = 0 /\ UNCHANGED outcome
EndsAs(why) == at' = "ended" /\ outcome' = why /\ UNCHANGED idle

------------------------------------------------------------------------------
(* Addresses. *)

(* _ip_is_blocked.                                                         *)
IsBlocked(ip) == LET a == IF ip \in DOMAIN Nat64 THEN Nat64[ip] ELSE ip
                 IN  a \in Multicast \/ a \notin Global

------------------------------------------------------------------------------
(* The guard. *)

(* Mutant of AuthorityOf: the URL's host, the pin of the hop before.       *)
AuthorityOfUrl(u, h) == u.host

(* _authority: the Host header, when there is one.                         *)
AuthorityOf(u, h) == IF h = NoHost THEN u.host ELSE h

(* The checked address replaces the URL's host; the Host header stays.     *)
Pin(ip) == /\ url' = [url EXCEPT !.host = ip]
           /\ Goto("connect")

(* handle_async_request, up to its await: httpx has counted the hops, the  *)
(* guard checks the scheme and the host and records the hop.               *)
SendHop ==
    /\ at = "send"
    /\ UNCHANGED <<header, hops, dialled, body>>
    /\ LET host == AuthorityOf(url, header) IN
       \/ /\ hops > MaxRedirects
          /\ EndsAs("redirects")
          /\ UNCHANGED <<url, authority, final, answer>>
       \/ /\ hops <= MaxRedirects
          /\ url.scheme \notin Allowed \/ host = NoHost
          /\ EndsAs("refused")
          /\ UNCHANGED <<url, authority, final, answer>>
       \/ /\ hops <= MaxRedirects /\ url.scheme \in Allowed /\ host # NoHost
          /\ authority' = host
          /\ final' = [url EXCEPT !.host = host, !.user = FALSE]
          /\ \/ /\ host \in BlockedNames \/ (host \in Addresses /\ IsBlocked(host))
                /\ EndsAs("refused")
                /\ UNCHANGED <<url, answer>>
             \/ /\ host \in Addresses /\ ~IsBlocked(host)
                /\ answer' = <<host>>
                /\ Pin(host)
             \/ /\ host \in Names \ BlockedNames
                /\ Goto("resolve")
                /\ UNCHANGED <<url, answer>>

(* Mutant of Resolve: the name stays in the URL, for the client to dial.   *)
ResolveUnpinned(found) ==
    /\ at = "resolve"
    /\ answer' = found
    /\ UNCHANGED <<url, header, authority, final, hops, dialled, body>>
    /\ IF found = << >> \/ \E ip \in ToSet(found) : IsBlocked(ip)
       THEN EndsAs("refused") ELSE Goto("connect")

(* _resolve_pinned_ip: every address must be public; the first is pinned.  *)
Resolve(found) ==
    /\ at = "resolve"
    /\ answer' = found
    /\ UNCHANGED <<header, authority, final, hops, dialled, body>>
    /\ \/ /\ found = << >> \/ \E ip \in ToSet(found) : IsBlocked(ip)
          /\ EndsAs("refused")
          /\ UNCHANGED url
       \/ /\ found # << >> /\ \A ip \in ToSet(found) : ~IsBlocked(ip)
          /\ Pin(found[1])

ResolveFails == /\ at = "resolve"
                /\ EndsAs("refused")
                /\ UNCHANGED <<request, body>>

(* The inner transport dials the host of the URL.  Had it been left a      *)
(* name, it would be looked up once more.                                  *)
Connect == /\ at = "connect"
           /\ \E ip \in (IF url.host \in Names THEN Addresses ELSE {url.host}) : dialled' = ip
           /\ Goto("status")
           /\ UNCHANGED <<url, header, authority, final, hops, answer, body>>

------------------------------------------------------------------------------
(* The client and fetch_url. *)

(* fetch_url up to its first await: its own checks, and the userinfo goes. *)
FetchUrl(u) ==
    /\ at = "idle"
    /\ \/ /\ u.scheme \notin Allowed \/ u.host = NoHost
          /\ EndsAs("refused")
          /\ UNCHANGED request
       \/ /\ u.scheme \in Allowed /\ u.host # NoHost
          /\ url' = [u EXCEPT !.user = FALSE]
          /\ header' = u.host
          /\ Goto("send")
          /\ UNCHANGED <<authority, final, hops, dialled, answer>>
    /\ UNCHANGED body

(* Mutant of Joined: the URL of the Location, not joined to anything.      *)
JoinedNaive(loc) == loc

(* httpx joins a Location to the URL it sent: what the Location leaves out *)
(* is taken from there.                                                    *)
Joined(loc) == IF loc = Relative THEN url
               ELSE [loc EXCEPT !.host = IF loc.host = NoHost THEN url.host ELSE loc.host]

(* Mutant of Redirect: the loop does not count.                            *)
RedirectUncounted(loc) ==
    LET next == Joined(loc) IN
    /\ at = "status"
    /\ url' = next
    /\ header' = IF next.scheme = url.scheme /\ next.host = url.host
                 THEN header ELSE next.host
    /\ Goto("drain")
    /\ UNCHANGED <<authority, final, hops, dialled, answer, body>>

(* httpx builds the next hop and counts this one; it sets Host anew unless *)
(* the origin is the one it just sent to, which after the pin is an        *)
(* address.  Before it sends, it reads the body of the redirect.           *)
Redirect(loc) ==
    LET next == Joined(loc) IN
    /\ at = "status"
    /\ url' = next
    /\ header' = IF next.scheme = url.scheme /\ next.host = url.host
                 THEN header ELSE next.host
    /\ hops' = hops + 1
    /\ Goto("drain")
    /\ UNCHANGED <<authority, final, dialled, answer, body>>

(* The body of a redirect is read to its end, however long.                *)
Drained == /\ at = "drain"
           /\ Goto("send")
           /\ UNCHANGED <<request, body>>

(* raise_for_status: a final response that is not a success.               *)
StatusError(why) == /\ at = "status"
                    /\ EndsAs(why)
                    /\ UNCHANGED <<request, body>>

StatusOk == /\ at = "status"
            /\ Goto("body")
            /\ UNCHANGED <<request, body>>

(* Mutant of Chunk: the chunk is kept before the cap is looked at, and     *)
(* only the chunks of before are counted.                                  *)
ChunkBeforeCap(n) ==
    /\ at = "body"
    /\ sent' = sent + n
    /\ UNCHANGED request
    /\ \/ kept > MaxBytes /\ EndsAs("too_large") /\ UNCHANGED kept
       \/ kept <= MaxBytes /\ kept' = kept + n /\ Goto("body")

(* aiter_bytes: a chunk is kept unless it takes the body over the cap.     *)
Chunk(n) ==
    /\ at = "body"
    /\ sent' = sent + n
    /\ UNCHANGED request
    /\ \/ sent + n > MaxBytes /\ EndsAs("too_large") /\ UNCHANGED kept
       \/ sent + n <= MaxBytes /\ kept' = kept + n /\ Goto("body")

Complete == /\ at = "body"
            /\ EndsAs("ok")
            /\ UNCHANGED <<request, body>>

(* A broken connection, or a response httpx cannot read.                   *)
TransportError == /\ at \in Timed
                  /\ EndsAs("transport")
                  /\ UNCHANGED <<request, body>>

(* The server sends what neither ends the operation nor counts: a part of  *)
(* a redirect's body, an interim response, bytes that decode to none.  The *)
(* limit is on each read, so it begins anew.                               *)
Trickle == /\ at \in Timed \ {"connect"}
           /\ idle' = 0
           /\ UNCHANGED <<at, request, body, outcome>>

(* httpx gives up on an operation that has been silent for timeout_s; the  *)
(* lookup is not one of its operations.                                    *)
TimesOut == /\ at \in Timed /\ idle >= TimeoutS
            /\ EndsAs("timeout")
            /\ UNCHANGED <<request, body>>

Tick == /\ at \in Timed /\ idle < TimeoutS
        /\ idle' = idle + 1
        /\ UNCHANGED <<at, request, body, outcome>>

Lookup == (\E found \in Answers : Resolve(found)) \/ ResolveFails
Status == \/ \E loc \in Locations : Redirect(loc)
          \/ \E why \in {"http_429", "http_error"} : StatusError(why)
          \/ StatusOk
Stream == (\E n \in ChunkSizes : Chunk(n)) \/ Complete
Server == Connect \/ Status \/ Drained \/ Stream \/ Trickle \/ TransportError

FNext == (\E u \in Requested : FetchUrl(u)) \/ SendHop \/ Lookup \/ Server \/ TimesOut \/ Tick

FSpec == FInit /\ [][FNext]_fvars
(* A lookup ends, by the resolver's own limits; time passes, and httpx's   *)
(* timers fire.  Nothing is asked of the servers.                          *)
FFairSpec == FSpec /\ WF_fvars(SendHop) /\ WF_fvars(Lookup)
                   /\ WF_fvars(Tick) /\ WF_fvars(TimesOut)
------------------------------------------------------------------------------
FTypeOK == /\ at \in Stages /\ outcome \in Outcomes
           /\ url \in Urls /\ final \in Urls
           /\ header \in Names \cup Addresses \cup {NoHost}
           /\ authority \in Names \cup Addresses \cup {NoHost}
           /\ hops \in Nat /\ dialled \in Addresses \cup {NoAddress}
           /\ answer \in Seq(Addresses)
           /\ {sent, kept} \subseteq Nat /\ idle \in 0..TimeoutS

(* Whatever names and Locations lead to, the connection goes to an address *)
(* the guard has checked for this hop, together with all others the name   *)
(* resolved to: nothing non-public is dialled, on no hop, and no second    *)
(* lookup comes between check and use (_resolve_pinned_ip).                *)
DialsCheckedAddress ==
    at \in {"status", "drain", "body"} => /\ dialled \in ToSet(answer)
                                          /\ \A ip \in ToSet(answer) : ~IsBlocked(ip)

(* The name that was checked, the name the server is asked for in Host and *)
(* the name reported as final_url are one, whatever mix of relative and    *)
(* absolute redirects came before (_authority, _FINAL_URL_KEY).            *)
OneNamePerHop == at \in {"resolve", "connect", "status", "body"} =>
    /\ authority = header
    /\ final.host = header /\ final.scheme = url.scheme /\ ~final.user

(* A fetch succeeds only with the whole body and within the cap, and is    *)
(* refused for its size only if the body is larger than the cap.           *)
CapExact == /\ kept <= MaxBytes
            /\ outcome = "ok" => kept = sent
            /\ outcome = "too_large" => sent > MaxBytes

(* No chain of redirects keeps a fetch for ever, nor does a silent server: *)
(* a fetch that does not end stays with one response, whose server sends   *)
(* on and on what is not counted.  timeout_s, called an overall limit in   *)
(* fetch_url's docstring, does not end that one.                           *)
FetchesEnd == (at = "send") ~> \/ at = "ended"
                               \/ \E stage \in Timed \ {"connect"} : [](at = stage) /\ []<>(idle = 0)
=============================================================================
