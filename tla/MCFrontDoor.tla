----------------------------- MODULE MCFrontDoor -----------------------------
(* What a request meets before its work, and who hears of the work.  The      *)
(* components share no state: in a behaviour one of them moves, and the       *)
(* others stay as they began.                                                 *)
EXTENDS Access, RateLimit, Vault, Progress, TLC

VARIABLE focus
frontVars == <<focus, accessVars, limitVars, vaultVars, progressVars>>

FrontInit ==
  /\ AccessInit /\ LimitInit /\ VaultInit /\ ProgressInit
  /\ focus \in {"access", "limit", "vault", "crowd", "return"}
  /\ focus \in {"crowd", "return"} \/ work.kind = "deploy"
\* All but the component that moves.
Still(rest) == UNCHANGED <<focus, rest>>
\* Two pages of a deployment with a connection each, or one page with three.
Watched ==
  \/ focus = "crowd" /\ work.kind = "deploy" /\ socket'[3].at = "unused"
  \/ focus = "return" /\ ~page'[2].opened
FrontNext ==
  \/ focus = "access" /\ AccessNext /\ Still(<<limitVars, vaultVars, progressVars>>)
  \/ focus = "limit" /\ LimitNext /\ Still(<<accessVars, vaultVars, progressVars>>)
  \/ focus = "vault" /\ VaultNext /\ Still(<<accessVars, limitVars, progressVars>>)
  \/ ProgressNext /\ Watched /\ Still(<<accessVars, limitVars, vaultVars>>)
FrontSpec == FrontInit /\ [][FrontNext]_frontVars

Alike == Permutations(Requests) \cup Permutations(Keys)

\* Every variable of the four components has its type, and the map of a hub stays
\* within its limit (auth.go, ratelimit.go, credential_export.go, ws/hub.go).
FrontTypeOK == AccessTypeOK /\ LimitTypeOK /\ VaultTypeOK /\ ProgressTypeOK
=============================================================================
