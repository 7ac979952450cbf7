------------------------------ MODULE MCUdpConfig ------------------------------
(***************************************************************************)
(* Model-checking instance of three parts that share no state with each    *)
(* other, so that a product would only multiply; MCInit chooses the one    *)
(* that runs and the others stay as they are.                              *)
(* The two parts UDP traffic passes: the session tables of relay and agent *)
(* (UdpSessions) and the channel between controller and agent              *)
(* (UdpChannel).                                                           *)
(* The relay's configuration: with two requests at a time, and with        *)
(* registrations and a restart around one.                                 *)
(***************************************************************************)
EXTENDS UdpSessions, UdpChannel, RelayConfig

CONSTANTS OneToken, OnePolicy, OneRequest

VARIABLE part  \* which of the four runs

CO == INSTANCE RelayConfig WITH Tokens <- OneToken, Regs <- {}, MaxRestarts <- 0
EN == INSTANCE RelayConfig WITH Policies <- OnePolicy

ASSUME ChannelConstants == ChannelAssumption
ASSUME SessionsConstants == SessionsAssumption
ASSUME ConfigConstants == CO!ConfigAssumption /\ EN!ConfigAssumption

allVars == <<part, channelVars, vars, configVars>>

\* What does not run stays in one of its initial states.
NoConfig ==
  /\ CO!ConfigInit
  /\ file = CHOOSE f \in CO!Configs : TRUE
  /\ job = [r \in Requests |-> CHOOSE j \in CO!RequestJobs : TRUE]

Others == Requests \ OneRequest

MCInit ==
  /\ ChannelInit /\ Init
  /\ \/ part = "channel"  /\ NoConfig
     \/ part = "sessions" /\ NoConfig /\ base = 0
     \/ part = "console"  /\ CO!ConfigInit /\ base = 0
     \/ /\ part = "enroll" /\ EN!ConfigInit /\ base = 0
        /\ \A r \in Others : job[r] = CHOOSE j \in EN!RequestJobs : TRUE

Channel(A)   == part = "channel" /\ A /\ UNCHANGED <<part, vars, configVars>>
Sessions(A)  == part = "sessions" /\ A /\ UNCHANGED <<part, channelVars, configVars>>
Config(p, A) == part = p /\ A /\ UNCHANGED <<part, channelVars, vars>>

\* One request is made.
OneMade == \A r \in Others : step'[r] = "new"

MCNext ==
  \/ Channel(ChannelNext) \/ Sessions(Next)
  \/ Config("console", CO!ConfigNext) \/ Config("enroll", EN!ConfigNext /\ OneMade)

\* The fairness of UdpSessions!Spec; the others have none.
MCSpec ==
  /\ MCInit /\ [][MCNext]_allVars
  /\ WF_allVars(Sessions(CloseSocket)) /\ WF_allVars(Sessions(ReaderEnds))
  /\ WF_allVars(Sessions(Handling))
=============================================================================
