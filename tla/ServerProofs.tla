---------------------------- MODULE ServerProofs ----------------------------
(***************************************************************************)
(* The process with its janitor and its restarts is a behaviour of Store:  *)
(* what is proved of Store holds of it.                                    *)
(***************************************************************************)
EXTENDS Server, StoreAccountingProofs

LEMMA ServerStepRunsStore == [ServerNext]_serverVars => [Next]_vars
<1> SUFFICES ASSUME [ServerNext]_serverVars PROVE [Next]_vars
  OBVIOUS
<1>1. CASE UNCHANGED serverVars
  BY <1>1 DEF serverVars
<1>2. CASE Handle
  BY <1>2 DEF Handle, HandlerNext, Next
<1>3. CASE JanitorBegin
  BY <1>3 DEF JanitorBegin, Next
<1>4. CASE JanitorSweep
  BY <1>4 DEF JanitorSweep, Next
<1>5. CASE TickerFires
  BY <1>5 DEF TickerFires, Next
<1>6. CASE TickerFiresAtBound
  BY <1>6 DEF TickerFiresAtBound
<1>7. CASE Restart
  BY <1>7 DEF Restart, Next
<1> QED
  BY <1>1, <1>2, <1>3, <1>4, <1>5, <1>6, <1>7 DEF ServerNext

\* Whatever the handlers do beside the janitor, and however often the process
\* restarts, every step is one of Store.
THEOREM ServerRunsStore == ServerSpec => Spec
<1>1. ServerInit => Init
  BY DEF ServerInit
<1> QED
  BY <1>1, ServerStepRunsStore, PTL DEF ServerSpec, Spec

\* So the process keeps its quota and its counters exact, and never loses audio
\* that is needed, through janitor, sweep and restarts.
THEOREM StoreHoldsForServer ==
    ServerSpec => [](QuotaExact /\ CountsExact /\ AudioAvailable)
BY ServerRunsStore, QuotaIsExact, CountsAreExact, AudioNeverLost, PTL
=============================================================================
