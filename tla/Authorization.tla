---------------------------- MODULE Authorization ----------------------------
(***************************************************************************)
(* Who is calling (_subject.py) and what they may call (_authorization.py).*)
(* A token carries a "sub", a client id (None for none) and the values of  *)
(* the claim the claims check reads.  A component's meta names a scope,    *)
(* nothing, or something that is not a scope.  A table is what the         *)
(* operator wrote: subjects, or claim values, and the scopes they get.     *)
(***************************************************************************)
EXTENDS Naturals

CONSTANTS Subjects,   \* subject and client names
          Scopes,     \* scope names, "*" apart
          Values      \* claim values: scopes, roles and "*"

None      == "None"
NoToken   == [kind |-> "no_token"]
NoGrants  == [key \in {"no_grants"} |-> {}]      \* make_claims_check without grants
Rejected  == [key \in {"ConfigurationError"} |-> {}]
NotAList  == {"not_a_list"}
Granted   == SUBSET (Scopes \cup {"*"})
Tokens    == [sub : Subjects \cup {None}, client : Subjects \cup {None}, values : SUBSET Values]
Metas     == Scopes \cup {None, "invalid"}

ASSUME AuthorizationAssumption ==
    "*" \notin Scopes \cup Subjects /\ Scopes \cup {"*"} \subseteq Values
    /\ None \notin Subjects

------------------------------------------------------------------------------
(* The operator's tables. *)

(* load_acl and parse_claim_grants climb one ladder: a key that is blank   *)
(* or "*", a value that is no list, a scope that is blank or no string     *)
(* reject the table as a whole.                                            *)
LoadTable(table) ==
    IF \E key \in DOMAIN table : key \in {"blank", "*"} \/ table[key] \notin Granted
    THEN Rejected ELSE table

------------------------------------------------------------------------------
(* The subject. *)

(* _subject_of, of a token: no fallback.                                   *)
SubjectOf(token) == IF token.sub # None THEN token.sub ELSE token.client

(* Mutant of GetSubject: a token without a sub is nobody in particular.    *)
GetSubjectSubOnly(token, mode) ==
    IF token = NoToken THEN (IF mode = "none" THEN "local" ELSE None) ELSE token.sub

(* get_subject: without a token the caller is the local one only on a      *)
(* server that resolved to no authentication.                              *)
GetSubject(token, mode) ==
    IF token = NoToken THEN (IF mode = "none" THEN "local" ELSE None)
    ELSE SubjectOf(token)

------------------------------------------------------------------------------
(* The checks. *)

(* _resolve_required: an unusable meta leaves the component unrestricted.  *)
Required(meta) == IF meta \in Scopes THEN meta ELSE None

(* Mutant of GrantedScopes: a claim's own "*" counts.                      *)
GrantedScopesVerbatim(values, grants) ==
    IF grants = NoGrants THEN values
    ELSE UNION {grants[v] : v \in values \cap DOMAIN grants}

(* _granted_scopes: claims name scopes themselves, or the operator maps    *)
(* them; only the operator may say "*".                                    *)
GrantedScopes(values, grants) ==
    IF grants = NoGrants THEN values \ {"*"}
    ELSE UNION {grants[v] : v \in values \cap DOMAIN grants}

Opens(granted, meta) == "*" \in granted \/ Required(meta) \in granted

ClaimsCheck(token, meta, grants) ==
    \/ Required(meta) = None
    \/ token # NoToken /\ Opens(GrantedScopes(token.values, grants), meta)

AclCheck(token, meta, acl) ==
    \/ Required(meta) = None
    \/ /\ token # NoToken
       /\ SubjectOf(token) \in DOMAIN acl
       /\ Opens(acl[SubjectOf(token)], meta)

(* What a check returns; a downstream's own may raise.                     *)
Verdicts == {"yes", "no", "raises"}
Says(b)  == IF b THEN "yes" ELSE "no"

(* any_check: the first verdict that is not "no" decides; a sub-check that *)
(* raises propagates, whatever comes after it.                             *)
AnyCheck(verdicts) ==
    IF \A i \in DOMAIN verdicts : verdicts[i] = "no" THEN "no"
    ELSE verdicts[CHOOSE i \in DOMAIN verdicts :
                    /\ verdicts[i] # "no"
                    /\ \A k \in 1 .. i - 1 : verdicts[k] = "no"]

(* AuthMiddleware: every one of its checks, and none that raises.          *)
AllChecks(verdicts) == \A i \in DOMAIN verdicts : verdicts[i] = "yes"
=============================================================================
