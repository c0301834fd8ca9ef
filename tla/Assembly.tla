------------------------------- MODULE Assembly -------------------------------
(***************************************************************************)
(* What a server shows its clients: its tools under the visibility the     *)
(* operator and the server itself have asked for, and the instructions     *)
(* put together from snippets (_visibility.py, _instructions.py).  Domain  *)
(* code registers tools and contributes snippets in any order.  A snippet  *)
(* is known by its role, the tools it is about and its place.              *)
(***************************************************************************)
EXTENDS Startup, SequencesExt

CONSTANT Snippets      \* what domain code may contribute

(* Identity and documentation are shaped by the builder and need no tool.  *)
ASSUME SnippetsAssumption ==
    \A x \in Snippets : /\ x.blank \in BOOLEAN
                        /\ x.role \in {"identity", "documentation"} => x.requires = {}

VARIABLE app           \* what each server shows

(* InstructionRole, in its order.                                          *)
Roles == <<"identity", "routing", "instance", "policy", "capabilities", "workflows", "documentation">>
Rank(role) == CHOOSE i \in DOMAIN Roles : Roles[i] = role
AddRoles   == {"instance", "capabilities", "workflows"}     \* _CONTRIBUTOR_ROLES
Shaped     == {"identity", "documentation"}                 \* by methods of their own

NoText   == [is |-> "none", parts |-> << >>]
LegacyText == [is |-> "legacy", parts |-> << >>]     \* the operator's whole text
TextOf(parts) == [is |-> "rendered", parts |-> parts]
EmptyApp == [tools |-> {}, transforms |-> << >>, snippets |-> << >>, frozen |-> FALSE, text |-> NoText,
             seen |-> {}, applied |-> 0, steps |-> 0]

AInit == SInit /\ app = [s \in Servers |-> EmptyApp]
avars == <<svars, app>>

Assembling(s) == server[s].stage = "assembling"
(* Every act of domain code counts towards plan.domain.                    *)
Domain(s) == Assembling(s) /\ app[s].steps < plan.domain

------------------------------------------------------------------------------
(* Tools. *)

RegisterTool(s, t) ==
    /\ Domain(s) /\ t \notin app[s].tools
    /\ app' = [app EXCEPT ![s].tools = @ \cup {t}, ![s].steps = @ + 1]
    /\ UNCHANGED svars

(* FastMCP's enable and disable: the last transform that names a tool      *)
(* decides, for tools registered later as well.                            *)
Transform(shows, names) == [shows |-> shows, names |-> names]
Exposed(a) ==
    {t \in a.tools : \A i \in DOMAIN a.transforms :
        t \in a.transforms[i].names /\ ~a.transforms[i].shows =>
            \E k \in i + 1 .. Len(a.transforms) : t \in a.transforms[k].names /\ a.transforms[k].shows}

(* The server's own calls of enable and disable.                           *)
OwnVisibility(s, t, shows) ==
    /\ Domain(s)
    /\ app' = [app EXCEPT ![s].transforms = Append(@, Transform(shows, {t})), ![s].steps = @ + 1]
    /\ UNCHANGED svars

(* The transforms of apply_tool_visibility.                                *)
Lists(a, c) ==
    IF c.allow # {} THEN <<Transform(FALSE, Tools), Transform(TRUE, c.allow)>>
    ELSE IF c.deny # {} THEN <<Transform(FALSE, c.deny)>> ELSE << >>

(* _reject_both_lists: a configuration built by hand may have both.        *)
BothLists(c) == c.allow # {} /\ c.deny # {}

ApplyToolVisibility(s) ==
    LET c == server[s].config IN
    /\ Assembling(s) /\ app[s].applied = 0 /\ "tools" \in plan.uses
    /\ \/ BothLists(c) /\ Fails(s) /\ UNCHANGED <<plan, process, console, app>>
       \/ /\ ~BothLists(c)
          /\ app' = [app EXCEPT ![s].transforms = @ \o Lists(app[s], c),
                                ![s].applied = Len(app[s].transforms \o Lists(app[s], c))]
          /\ UNCHANGED svars

------------------------------------------------------------------------------
(* Instructions. *)

(* add, identity and documentation: a reserved role, a blank text and a    *)
(* builder that has rendered raise, which ends the construction.           *)
Contribute(s, snippet) ==
    /\ Domain(s)
    /\ \/ /\ app[s].frozen \/ snippet.blank \/ snippet.role \notin AddRoles \cup Shaped
          /\ Fails(s)
          /\ UNCHANGED <<plan, process, console, app>>
       \/ /\ ~app[s].frozen /\ ~snippet.blank /\ snippet.role \in AddRoles \cup Shaped
          /\ app' = [app EXCEPT ![s].steps = @ + 1,
                                ![s].snippets = Append(@, [role |-> snippet.role, requires |-> snippet.requires,
                                                           seq |-> Len(@)])]
          /\ UNCHANGED svars

Identities(snippets) == {i \in DOMAIN snippets : snippets[i].role = "identity"}

(* _operator_snippets.                                                     *)
OperatorSnippets(a, e) ==
    LET given == {f \in {"routing", "policy"} : Env(e[f], None) # None}
    IN  {[role |-> f, requires |-> {},
          seq |-> Len(a.snippets) + (IF given # {f} /\ f = "policy" THEN 1 ELSE 0)] : f \in given}

Before(x, y) == \/ Rank(x.role) < Rank(y.role)
                \/ Rank(x.role) = Rank(y.role) /\ x.seq < y.seq

Sorted(S) ==
    [i \in 1 .. Cardinality(S) |-> CHOOSE x \in S : Cardinality({y \in S : Before(y, x)}) = i - 1]

Candidates(a, e) == ToSet(a.snippets) \cup OperatorSnippets(a, e)

(* Mutant of Retained: a tool need only be registered.                     *)
RetainedRegistered(a, e) == Sorted({x \in Candidates(a, e) : x.requires \subseteq a.tools})

(* _retained: snippets whose tools are all exposed, by role and place.     *)
Retained(a, e) == Sorted({x \in Candidates(a, e) : x.requires \subseteq Exposed(a)})

(* finalize_instructions.  It raises without exactly one identity, with    *)
(* both lists, or from a running event loop; the builder then stays open,  *)
(* and the caller may go on or not.  Rendered once, the text is cached.    *)
Finalize(s) ==
    LET a == app[s]
        e == Deployment(s).env
        legacy == Env(e.instructions, None) # None
    IN  /\ Assembling(s) /\ a.text = NoText /\ "tools" \in plan.uses
        /\ \/ /\ legacy
              /\ app' = [app EXCEPT ![s].frozen = TRUE, ![s].seen = Exposed(a), ![s].text = LegacyText]
              /\ UNCHANGED svars
           \/ /\ ~legacy /\ Cardinality(Identities(a.snippets)) = 1 /\ ~BothLists(server[s].config)
              /\ app' = [app EXCEPT ![s].frozen = TRUE, ![s].seen = Exposed(a), 
                                    ![s].text = TextOf(Retained(a, e))]
              /\ UNCHANGED svars
           \/ ~legacy /\ Fails(s) /\ UNCHANGED <<plan, process, console, app>>

AssemblyStep == \E s \in Servers :
    \/ \E t \in Tools : RegisterTool(s, t) \/ \E shows \in BOOLEAN : OwnVisibility(s, t, shows)
    \/ ApplyToolVisibility(s) \/ Finalize(s)
    \/ \E snippet \in Snippets : Contribute(s, snippet)
------------------------------------------------------------------------------
(* Nothing the server does after the operator's lists.                     *)
ListsLast(s) == app[s].applied > 0 /\ app[s].applied = Len(app[s].transforms)

(* Applied after the server's own calls, the operator's lists hold for     *)
(* every tool, registered before or after (apply_tool_visibility).         *)
OperatorListsWin ==
    \A s \in Servers : ListsLast(s) =>
        /\ Exposed(app[s]) \cap server[s].config.deny = {}
        /\ server[s].config.allow # {} => Exposed(app[s]) \subseteq server[s].config.allow

(* As long as what is exposed has not changed since, the text is about     *)
(* exposed tools only and leaves out no snippet that is; it names one      *)
(* identity, first, and keeps the order of the roles.  A builder takes     *)
(* contributions exactly until it has rendered: none is lost.              *)
InstructionsTrue ==
    \A s \in Servers : LET a == app[s] IN
        /\ a.frozen <=> a.text # NoText
        /\ a.text.is = "rendered" => LET parts == a.text.parts IN
             /\ Identities(parts) = {1}
             /\ \A i, k \in DOMAIN parts : i < k => Rank(parts[i].role) <= Rank(parts[k].role)
             /\ Exposed(a) = a.seen =>
                  /\ \A x \in ToSet(parts) : x.requires \subseteq Exposed(a)
                  /\ \A x \in ToSet(a.snippets) : x.requires \subseteq Exposed(a) => x \in ToSet(parts)

(* What clients are shown and told is what the operator has let them see.  *)
SurfaceIsTheOperators == OperatorListsWin /\ InstructionsTrue
==============================================================================
