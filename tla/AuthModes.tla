------------------------------ MODULE AuthModes ------------------------------
(***************************************************************************)
(* _auth.py: which authentication a configuration asks for, and the        *)
(* provider that is built for it, or Failed for a ConfigurationError.      *)
(* discovery is what the authorization server answers while it is built:   *)
(* whether it can be read, and the scopes it says it supports, {} for none.*)
(***************************************************************************)
EXTENDS Environment

Modes     == {"none", "bearer-single", "bearer-mapped", "remote", "oidc-proxy", "multi"}
Overrides == {"remote", "oidc-proxy"}           \* _VALID_MODES
NoProvider == [kind |-> "none"]
Failed     == [kind |-> "failed"]

(* _normalise_override; a value that is no mode is ignored with a warning. *)
Override(c) == IF c.auth_mode \in Overrides THEN c.auth_mode ELSE None

HasMapped(c) == c.tokens_file # None
HasSingle(c) == Truthy(c.bearer_token) /\ ~HasMapped(c)
HasRemote(c) == Truthy(c.base_url) /\ Truthy(c.config_url)
HasProxy(c)  == HasRemote(c) /\ Truthy(c.client_id) /\ Truthy(c.client_secret)

(* resolve_auth_mode.                                                      *)
ResolveMode(c) ==
    LET oidc   == IF HasProxy(c) THEN "oidc-proxy" ELSE "remote"
        bearer == IF HasMapped(c) THEN "bearer-mapped" ELSE "bearer-single"
    IN  CASE Override(c) # None                                   -> Override(c)
          [] Override(c) = None /\ (HasMapped(c) \/ HasSingle(c)) -> IF HasRemote(c) THEN "multi" ELSE bearer
          [] Override(c) = None /\ ~HasMapped(c) /\ ~HasSingle(c) -> IF HasRemote(c) THEN oidc ELSE "none"

------------------------------------------------------------------------------
(* The bearer verifier. *)

(* _load_bearer_tokens: what the path leads to, "good" for a file whose    *)
(* [tokens] table gives every key a subject.                               *)
TokensFiles == {"good", "missing", "unreadable", "empty_file", "not_toml", "no_table",
                "blank_key", "nested", "no_string", "blank_subject"}

(* build_bearer_auth: the file comes before the token.                     *)
BuildBearer(c) ==
    CASE HasMapped(c) /\ c.tokens_file = "good" -> [kind |-> "bearer-mapped"]
      [] HasMapped(c) /\ c.tokens_file # "good" -> Failed
      [] ~HasMapped(c) -> IF c.bearer_token \in {"unset", "empty", "blank"} THEN NoProvider
                          ELSE [kind |-> "bearer-single"]

------------------------------------------------------------------------------
(* The OpenID Connect providers. *)

Default == {"openid", "offline_access"}         \* _DEFAULT_ADVERTISED_SCOPES

(* _resolve_advertised_scopes.                                             *)
Advertised(c, supported) ==
    c.required \cup (IF c.advertised # {} THEN c.advertised
                     ELSE IF supported = {} THEN Default ELSE Default \cap supported)

(* _missing_for_mode.                                                      *)
Missing(c, mode) ==
    CASE mode = "oidc-proxy"    -> {f \in {"base_url", "config_url", "client_id", "client_secret"} : ~Truthy(c[f])}
      [] mode = "remote"        -> {f \in {"base_url", "config_url"} : ~Truthy(c[f])}
      [] mode = "bearer-single" -> {f \in {"bearer_token"} : c[f] \in {"unset", "empty", "blank"}}
      [] OTHER                  -> {}

(* build_oidc_proxy_auth.                                                  *)
BuildProxy(c, discovery) ==
    CASE Missing(c, "oidc-proxy") # {} -> NoProvider
      [] Missing(c, "oidc-proxy") = {} /\ discovery.is # "complete" -> Failed
      [] Missing(c, "oidc-proxy") = {} /\ discovery.is = "complete" ->
             [kind |-> "oidc-proxy",
              required |-> IF c.required = {} THEN {"openid"} ELSE c.required,
              advertised |-> Advertised(c, discovery.scopes),
              verifies |-> IF c.verify_access THEN "access_token" ELSE "id_token"]

(* build_remote_auth.                                                      *)
BuildRemote(c, discovery) ==
    CASE Missing(c, "remote") # {} -> NoProvider
      [] Missing(c, "remote") = {} /\ discovery.is # "complete" -> Failed
      [] Missing(c, "remote") = {} /\ discovery.is = "complete" ->
             [kind |-> "remote", required |-> c.required,
              advertised |-> Advertised(c, discovery.scopes), verifies |-> "access_token"]

(* _build_multi_auth: both or nothing; the composition itself requires no  *)
(* scope of a token, only the providers in it do.                          *)
BuildMulti(c, discovery) ==
    LET oidc == IF BuildProxy(c, discovery) = NoProvider THEN BuildRemote(c, discovery)
                ELSE BuildProxy(c, discovery)
    IN  IF {oidc, BuildBearer(c)} \cap {NoProvider, Failed} # {} THEN Failed
        ELSE [kind |-> "multi", server |-> oidc, verifier |-> BuildBearer(c)]

(* Mutant of Provisioned: whatever the builder returned is served with.    *)
ProvisionedAnyway(mode, provider) == provider

(* _reject_unprovisioned_mode: only the mode "none" has no provider.       *)
Provisioned(mode, provider) ==
    IF mode # "none" /\ provider = NoProvider THEN Failed ELSE provider

(* _build_provider.                                                        *)
BuildProvider(c, mode, discovery) ==
    Provisioned(mode, CASE mode = "none"       -> NoProvider
                        [] mode \in {"bearer-single", "bearer-mapped"} -> BuildBearer(c)
                        [] mode = "oidc-proxy" -> BuildProxy(c, discovery)
                        [] mode = "remote"     -> BuildRemote(c, discovery)
                        [] mode = "multi"      -> BuildMulti(c, discovery))

(* _announce_auth_mode: the consequence the log names.                     *)
Announcement(provider) == CASE provider = Failed     -> "will not start"
                            [] provider = NoProvider -> "unauthenticated"
                            [] provider \notin {Failed, NoProvider} -> "authenticated"

(* The OpenID Connect part of a provider, if it has one.                   *)
OidcPart(provider) ==
    CASE provider.kind \in {"oidc-proxy", "remote"} -> {provider}
      [] provider.kind = "multi"                    -> {provider.server}
      [] OTHER                                      -> {}
==============================================================================
