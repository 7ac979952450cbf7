-------------------------------- MODULE MCParts --------------------------------
(***************************************************************************)
(* Model-checking instance of two parts that share no state with each      *)
(* other, so that a product would only multiply; MCInit chooses one.       *)
(* The stream multiplexer: with two streams that compete, with one stream  *)
(* of several frames, where order matters, and at its limit.               *)
(* The agent's direct connections: with sessions that replace each other,  *)
(* and with direct TCP connections that come in during one; they meet in a *)
(* session's life only.                                                    *)
(*                                                                         *)
(* The instances below are the modules with fewer of some things; the      *)
(* properties are the modules' own.                                        *)
(***************************************************************************)
EXTENDS AgentP2P, TlsMux

CONSTANTS OneStream, ShortWrites, OneNotified

VARIABLE part  \* which of the five runs

TM == INSTANCE TlsMux WITH MaxWrites <- ShortWrites
TN == INSTANCE TlsMux WITH MaxWrites <- 0
PU == INSTANCE AgentP2P WITH Addrs <- {}
DT == INSTANCE AgentP2P WITH Notified <- OneNotified

ASSUME MuxConstants == MuxAssumption /\ TM!MuxAssumption /\ TN!MuxAssumption
ASSUME P2PConstants == PU!P2PAssumption /\ DT!P2PAssumption

allVars == <<part, muxVars, vars>>

\* The multiplexer does not run.
NoMux == MuxInit /\ limit = 1

MCInit ==
  \/ part = "streams" /\ TM!MuxInit /\ PU!Init /\ limit = Cardinality(Streams)
  \/ part = "stream"  /\ MuxInit /\ PU!Init
  \/ part = "limit"   /\ TN!MuxInit /\ PU!Init /\ limit < Cardinality(Streams)
  \/ part = "punch"   /\ PU!Init /\ NoMux
  \/ part = "direct"  /\ DT!Init /\ NoMux

MuxStep(p, A) == part = p /\ A /\ UNCHANGED <<part, vars>>
P2PStep(p, A) == part = p /\ A /\ UNCHANGED <<part, muxVars>>

\* One stream is opened.
OneOpened == used'["client"] \subseteq OneStream

\* The server ends the session after the client only.
ClientEndsFirst == done'["server"] => done'["client"]

MCNext ==
  \/ MuxStep("streams", TM!MuxNext /\ ClientEndsFirst)
  \/ MuxStep("stream", MuxNext /\ OneOpened)
  \/ MuxStep("limit", TN!MuxNext)
  \/ P2PStep("punch", PU!Next) \/ P2PStep("direct", DT!Next)

\* The fairness of TlsMux!MuxSpec and AgentP2P!Spec.
MCProgress ==
  \/ MuxStep("streams", TM!MuxProgress) \/ MuxStep("stream", MuxProgress)
  \/ MuxStep("limit", TN!MuxProgress)
  \/ P2PStep("punch", PU!Progress) \/ P2PStep("direct", DT!Progress)

MCSpec == MCInit /\ [][MCNext]_allVars /\ WF_allVars(MCProgress)

-----------------------------------------------------------------------------
\* When connectAndServe has returned, everything it started ends.
EverythingEnds == connCancelled ~> IF part = "direct" THEN DT!AllOver ELSE PU!AllOver
=============================================================================
