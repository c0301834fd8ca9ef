----------------------------- MODULE MCToolCalls -----------------------------
(* Instances of ToolCalls: two users of one client, the client itself, a   *)
(* client that goes by a user's name, one that goes by the name of callers *)
(* without one, a token with no name at all and a call that brings no      *)
(* token; tables with and without wildcards and mistakes.                  *)
EXTENDS ToolCalls, TLC

CONSTANTS ann, bob, app, scope, role

Token(s, c, v) == [sub |-> s, client |-> c, values |-> v]
MCCallers == {Token(ann, app, {"*"}), Token(bob, app, {role}), Token(None, app, {scope}),
              Token(None, bob, {}), Token(None, "anonymous", {}), Token(None, None, {}), NoToken}
MCAclTables == {ann :> {scope}, ann :> {"*"} @@ app :> {scope}, "*" :> {"*"},
                ann :> {"blank"}}
MCGrantTables == {role :> {scope}, role :> {"*"}, "*" :> {scope}, role :> NotAList}
=============================================================================
