----------------------------- MODULE MCCompileCache -----------------------------
(* CompileCache for TLC: app a with two boards, app b with its default     *)
(* scene under two keys; app b is edited twice, so that an edit can be     *)
(* undone.                                                                 *)
EXTENDS CompileCache
MCAppOf == [k \in Keys |-> IF k \in {"b/default", "b/home"} THEN "b" ELSE "a"]
MCMaxEdits == [a \in Apps |-> IF a = "b" THEN 2 ELSE 0]
MCAlias == [k \in Keys |->
              CASE k = "b/default" -> {"b/home"}
                [] k = "b/home"    -> {"b/default"}
                [] OTHER           -> {}]
=============================================================================
