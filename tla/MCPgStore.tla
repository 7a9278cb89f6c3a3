------------------------------ MODULE MCPgStore ------------------------------
(* Instances of PgStore for TLC.  Liveness is checked, so nothing is        *)
(* declared symmetric.                                                      *)
EXTENDS PgStore

(* Granted is what it says: exactly the calls whose next statement TLC can *)
(* execute.                                                                *)
GrantedIsEnabled == \A c \in Calls : Granted(c) <=> ENABLED Step(c)
=============================================================================
