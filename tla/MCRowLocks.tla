----------------------------- MODULE MCRowLocks -----------------------------
(* Three transactions on one job.  "circles": each is any operation, with a  *)
(* connection for each; "ends": one of each side, with one connection less.  *)
EXTENDS RowLocks, FiniteSetsExt, TLC

CONSTANTS t1, t2, t3
VARIABLE part

(* Which transaction does which operation makes no difference: they are      *)
(* dealt out in one order.                                                   *)
Order == FoldSet(LAMBDA o, s : Append(s, o), <<>>, Operations)
Rank(o) == CHOOSE i \in DOMAIN Order : Order[i] = o
Dealt == Rank(op[t1]) <= Rank(op[t2]) /\ Rank(op[t2]) <= Rank(op[t3])
OneOfEach == op[t1].by = "route" /\ op[t2].by = "worker" /\ op[t3].by = "webhook"

Tight == INSTANCE RowLocks WITH PoolMax <- PoolMax - 1

allVars == <<part, vars>>

MCInit == /\ part \in {"circles", "ends"}
          /\ Init
          /\ IF part = "circles" THEN Dealt ELSE OneOfEach
MCNext == /\ \/ part = "circles" /\ Next
             \/ part = "ends" /\ Tight!Next
          /\ UNCHANGED part
MCFairness == \A t \in Txs :
  /\ WF_allVars(part = "ends" /\ (Tight!Begin(t) \/ Tight!NoConnection(t) \/ Lock(t) \/ Abort(t)) /\ UNCHANGED part)
  /\ WF_allVars(part = "ends" /\ End(t) /\ UNCHANGED part)
MCSpec == MCInit /\ [][MCNext]_allVars /\ MCFairness

(* No request waits for ever, whoever it meets and however few connections   *)
(* there are: it commits, or is told to try again (RowLocks' EveryoneEnds).  *)
EachEnds == part = "ends" => EveryoneEnds
=============================================================================
