--------------------------- MODULE RelayConfigProofs ---------------------------
(***************************************************************************)
(* Theorems about RelayConfig: the relay settles on what its file says,    *)
(* and a token admits its device once.                                     *)
(*                                                                         *)
(* What the relay works with may differ from the file it has last loaded   *)
(* only while some request has still to write the file, which makes the    *)
(* watcher load it once more.                                              *)
(*                                                                         *)
(* The table only ever holds tokens somebody has asked for, wherever they  *)
(* have been in between: as long as that is one token, its row is marked   *)
(* consumed at the first admission and every later write of the row keeps  *)
(* the mark.                                                               *)
(***************************************************************************)
EXTENDS RelayConfig, FiniteSetTheorems, TLAPS

Rows == [token : Tokens \cup {Absent}, consumed : BOOLEAN]
Steps == {"new", "cfg", "read", "write", "done"}

TypeOK ==
  /\ db \in [Devices -> Rows] /\ invs \in Lists /\ file \in Configs /\ loaded \in Configs
  /\ policy \in Policies
  /\ job \in [Requests -> RequestJobs] /\ step \in [Requests -> Steps]
  /\ copy \in [Requests -> Lists] /\ content \in [Requests -> Configs]
  /\ watcher \in {"start", "idle", "load", "insert", "assign", "policy"}
  /\ claim \in [Regs -> Devices \X Tokens]
  /\ asked \in [Devices -> SUBSET (Tokens \cup {Absent})]
  /\ admitted \in [Devices -> Nat]

LEMMA JobFields ==
  ASSUME NEW j \in RequestJobs
  PROVE  /\ j.kind \in {"invite", "delete", "patch"} => j.dev \in Devices
         /\ j.kind = "invite" => j.token \in Tokens
         /\ j.kind = "access" => j.policy \in Policies
         /\ j.kind \in {"raw", "edit"} => j.config \in Configs
BY DEF RequestJobs

LEMMA UpsertRows ==
  ASSUME NEW rows \in [Devices -> Rows], NEW list \in Lists
  PROVE  Upsert(rows, list) \in [Devices -> Rows]
BY DEF Upsert, Rows, Row, Lists

LEMMA InitTypes == ASSUME ConfigAssumption, ConfigInit PROVE TypeOK
<1>1. file \in Configs /\ file.invs \in Lists /\ file.policy \in Policies
  BY DEF ConfigInit, Configs
<1>2. db \in [Devices -> Rows]
  <2>1. [d \in Devices |-> Row(Absent, FALSE)] \in [Devices -> Rows]
    BY DEF Row, Rows
  <2> QED
    BY <1>1, <2>1, UpsertRows DEF ConfigInit
<1>3. asked \in [Devices -> SUBSET (Tokens \cup {Absent})]
  BY <1>1 DEF ConfigInit, Lists
<1> QED
  BY <1>1, <1>2, <1>3 DEF ConfigInit, TypeOK, Steps

LEMMA HandlerTypes ==
  ASSUME TypeOK, NEW r \in Requests, Handlers(r)
  PROVE  TypeOK'
<1>1. /\ job[r] \in RequestJobs /\ file.invs \in Lists /\ file.policy \in Policies
  BY DEF TypeOK, Configs
<1>2. CASE StoreInvitation(r)
  <2>1. UNCHANGED <<invs, policy, file, loaded, job, copy, content, watcher, claim, admitted>>
    BY <1>2 DEF StoreInvitation, memory, watching, regs
  <2>2. step' \in [Requests -> Steps]
    BY <1>2 DEF StoreInvitation, Goto, TypeOK, Steps
  <2>3. db' \in [Devices -> Rows] /\ asked' \in [Devices -> SUBSET (Tokens \cup {Absent})]
    <3>1. CASE At(r, {"invite"}, "new")
      <4>1. job[r].dev \in Devices /\ job[r].token \in Tokens
        BY <1>1, <3>1, JobFields DEF At
      <4>2. PICK c \in BOOLEAN : db' = [db EXCEPT ![job[r].dev] = Row(job[r].token, c)]
        BY <1>2, <3>1 DEF StoreInvitation, At
      <4>3. Row(job[r].token, c) \in Rows
        BY <4>1 DEF Row, Rows
      <4>4. asked' = [asked EXCEPT ![job[r].dev] = @ \cup {job[r].token}]
        BY <1>2, <3>1 DEF StoreInvitation, At, Ask
      <4> QED
        BY <4>1, <4>2, <4>3, <4>4 DEF TypeOK
    <3>2. CASE At(r, {"delete"}, "new")
      <4>1. job[r].dev \in Devices
        BY <1>1, <3>2, JobFields DEF At
      <4>2. /\ db' = [db EXCEPT ![job[r].dev] = Row(Absent, FALSE)]
            /\ asked' = [asked EXCEPT ![job[r].dev] = @ \cup {Absent}]
        BY <1>2, <3>2 DEF StoreInvitation, At, Ask
      <4>3. Row(Absent, FALSE) \in Rows
        BY DEF Row, Rows
      <4> QED
        BY <4>1, <4>2, <4>3 DEF TypeOK
    <3>3. CASE UNCHANGED <<db, asked>>
      BY <3>3 DEF TypeOK
    <3> QED
      BY <1>2, <3>1, <3>2, <3>3 DEF StoreInvitation
  <2> QED
    BY <2>1, <2>2, <2>3 DEF TypeOK
<1>3. CASE CopyInvitations(r)
  <2>1. invs' \in Lists
    BY <1>1, <1>3, JobFields DEF CopyInvitations, At, TypeOK, Lists
  <2>2. step' \in [Requests -> Steps] /\ copy' \in [Requests -> Lists]
    BY <1>3, <2>1 DEF CopyInvitations, Goto, TypeOK, Steps
  <2> QED
    BY <1>3, <2>1, <2>2 DEF CopyInvitations, TypeOK, watching, regs, history
<1>4. CASE SetPolicy(r)
  <2>1. policy' \in Policies /\ step' \in [Requests -> Steps]
    BY <1>1, <1>4, JobFields DEF SetPolicy, At, Goto, TypeOK, Steps
  <2> QED
    BY <1>4, <2>1 DEF SetPolicy, TypeOK, watching, regs, history
<1>5. CASE SetSettings(r)
  BY <1>5 DEF SetSettings, Goto, TypeOK, Steps, memory, watching, regs, history
<1>6. CASE ReadFile(r)
  <2>1. content' \in [Requests -> Configs] /\ step' \in [Requests -> Steps]
    BY <1>6 DEF ReadFile, Goto, TypeOK, Steps
  <2> QED
    BY <1>6, <2>1 DEF ReadFile, TypeOK, memory, watching, regs
<1>7. CASE WriteFile(r)
  <2>1. content[r] \in Configs /\ copy[r] \in Lists
    BY DEF TypeOK
  <2>2. file' \in Configs
    BY <1>1, <1>7, <2>1, JobFields DEF WriteFile, At, Configs
  <2>3. step' \in [Requests -> Steps]
    BY <1>7 DEF WriteFile, Goto, TypeOK, Steps
  <2> QED
    BY <1>7, <2>2, <2>3 DEF WriteFile, TypeOK, memory, regs, history
<1>8. CASE ReplaceFile(r)
  <2>1. file' \in Configs /\ file'.invs \in Lists
    BY <1>1, <1>8, JobFields DEF ReplaceFile, At, Configs
  <2>2. asked' \in [Devices -> SUBSET (Tokens \cup {Absent})]
    BY <1>8, <2>1 DEF ReplaceFile, Changed, TypeOK, Lists
  <2>3. step' \in [Requests -> Steps]
    BY <1>8 DEF ReplaceFile, Goto, TypeOK, Steps
  <2> QED
    BY <1>8, <2>1, <2>2, <2>3 DEF ReplaceFile, TypeOK, memory, regs
<1>9. CASE TakeOver(r)
  <2>1. policy' \in Policies /\ step' \in [Requests -> Steps]
    BY <1>1, <1>9, JobFields DEF TakeOver, At, Goto, TypeOK, Steps, Configs
  <2> QED
    BY <1>9, <2>1 DEF TakeOver, TypeOK, watching, regs, history
<1> QED
  BY <1>2, <1>3, <1>4, <1>5, <1>6, <1>7, <1>8, <1>9 DEF Handlers

LEMMA OtherTypes ==
  ASSUME TypeOK, Watcher \/ Restart \/ \E g \in Regs : Validate(g) \/ AdmitDevice(g) \/ Refuse(g)
  PROVE  TypeOK'
<1>1. file.invs \in Lists /\ file.policy \in Policies /\ loaded.invs \in Lists /\ loaded.policy \in Policies
  BY DEF TypeOK, Configs
<1>2. CASE WatcherStart \/ WatcherStat \/ WatcherLoad
  BY <1>2 DEF WatcherStart, WatcherStat, WatcherLoad, TypeOK, memory, requests, regs, history
<1>3. CASE WatcherInsert
  <2>1. db' \in [Devices -> Rows]
    BY <1>1, <1>3, UpsertRows DEF WatcherInsert, TypeOK
  <2> QED
    BY <1>3, <2>1 DEF WatcherInsert, TypeOK, memory, requests, regs, history
<1>4. CASE WatcherAssign
  BY <1>1, <1>4 DEF WatcherAssign, TypeOK, requests, regs, history
<1>5. CASE Restart
  <2>1. db' \in [Devices -> Rows]
    BY <1>1, <1>5, UpsertRows DEF Restart, TypeOK
  <2>2. step' \in [Requests -> Steps]
    BY <1>5 DEF Restart, Steps
  <2> QED
    BY <1>1, <1>5, <2>1, <2>2 DEF Restart, TypeOK
<1>6. CASE \E g \in Regs : Validate(g) \/ Refuse(g)
  BY <1>6 DEF Validate, Refuse, TypeOK, memory, watching, requests, history
<1>7. ASSUME NEW g \in Regs, AdmitDevice(g) PROVE TypeOK'
  <2>1. claim[g][1] \in Devices
    BY DEF TypeOK
  <2>2. /\ db' = [db EXCEPT ![claim[g][1]].consumed = TRUE]
        /\ admitted' = [admitted EXCEPT ![claim[g][1]] = @ + 1]
    BY <1>7 DEF AdmitDevice
  <2>3. db[claim[g][1]] \in Rows /\ [db[claim[g][1]] EXCEPT !.consumed = TRUE] \in Rows
    BY <2>1 DEF TypeOK, Rows
  <2>4. db' \in [Devices -> Rows]
    BY <2>1, <2>2, <2>3 DEF TypeOK
  <2>5. admitted' \in [Devices -> Nat]
    BY <2>1, <2>2 DEF TypeOK
  <2> QED
    BY <1>7, <2>4, <2>5 DEF AdmitDevice, TypeOK, memory, watching, requests
<1> QED
  BY <1>2, <1>3, <1>4, <1>5, <1>6, <1>7 DEF Watcher

LEMMA StepTypes == ASSUME TypeOK, [ConfigNext]_configVars PROVE TypeOK'
<1>1. CASE UNCHANGED configVars
  BY <1>1 DEF configVars, memory, watching, requests, regs, history, TypeOK
<1> QED
  BY <1>1, HandlerTypes, OtherTypes DEF ConfigNext

-----------------------------------------------------------------------------
(* The relay settles on what its file says.                                *)

Inviting == {"invite", "delete", "patch"}
Pending(kinds, steps) == \E r \in Requests : job[r].kind \in kinds /\ step[r] \in steps

\* The file that was loaded, at the start or by the watcher, is the one last seen.
LoadedIsFile == seen /\ watcher # "load" /\ ~behind => loaded = file

\* Past its assignment the watcher has put the list it loaded into memory, and
\* whoever changes it there again will write the file.
ListIsLoaded ==
  /\ ~behind /\ seen /\ watcher \in {"start", "policy", "idle"}
  /\ ~Pending(Inviting, {"read", "write"})
  => invs = loaded.invs

\* Past its inserts the table holds the list; a handler changes the table one step
\* before the list.
TableIsLoaded ==
  /\ ~behind /\ seen /\ watcher \in {"start", "assign", "policy", "idle"}
  /\ ~Pending(Inviting, {"cfg", "read", "write"})
  => \A d \in Devices : loaded.invs[d] # Absent => db[d].token = loaded.invs[d]

PolicyIsLoaded ==
  /\ ~edited /\ ~behind /\ seen /\ watcher \in {"start", "policy", "idle"}
  /\ ~Pending({"access"}, {"cfg", "read", "write"})
  => policy = loaded.policy

\* Only who has posted the whole file takes over a policy that no write follows.
TakenOverIsEdited == Pending({"raw"}, {"cfg", "read"}) => edited

FileInv == LoadedIsFile /\ ListIsLoaded /\ TableIsLoaded /\ PolicyIsLoaded /\ TakenOverIsEdited

LEMMA InitFileInv == ASSUME ConfigAssumption, ConfigInit PROVE FileInv
<1>1. \A r \in Requests : step[r] = "new"
  BY DEF ConfigInit
<1>2. \A d \in Devices : loaded.invs[d] # Absent => db[d].token = loaded.invs[d]
  BY DEF ConfigInit, Upsert, Row
<1> QED
  BY <1>1, <1>2 DEF ConfigInit, FileInv, LoadedIsFile, ListIsLoaded, TableIsLoaded, PolicyIsLoaded,
                    TakenOverIsEdited, Pending

\* A request that moves leaves the others where they are.
LEMMA Moved ==
  ASSUME TypeOK, NEW r \in Requests, NEW s, Goto(r, s), UNCHANGED job, NEW kinds, NEW steps
  PROVE  /\ Pending(kinds, steps)' => Pending(kinds, steps) \/ (job[r].kind \in kinds /\ s \in steps)
         /\ Pending(kinds, steps) => Pending(kinds, steps)' \/ (job[r].kind \in kinds /\ step[r] \in steps)
         /\ job[r].kind \in kinds /\ s \in steps => Pending(kinds, steps)'
         /\ job[r].kind \in kinds /\ step[r] \in steps => Pending(kinds, steps)
<1>1. \A q \in Requests : step'[q] = IF q = r THEN s ELSE step[q]
  BY DEF Goto, TypeOK
<1> QED
  BY <1>1 DEF Pending

LEMMA InvitationsKeepFileInv ==
  ASSUME TypeOK, FileInv, NEW r \in Requests, StoreInvitation(r) \/ CopyInvitations(r)
  PROVE  FileInv'
<1>1. UNCHANGED <<file, seen, watcher, loaded, job, policy, behind, edited>>
  BY DEF StoreInvitation, CopyInvitations, memory, watching, history
<1>2. job[r].kind \in Inviting
  BY DEF StoreInvitation, CopyInvitations, At, Inviting
<1>3. job[r].kind # "access" /\ job[r].kind # "raw"
  BY <1>2 DEF Inviting
<1>4. LoadedIsFile' 
  BY <1>1 DEF FileInv, LoadedIsFile
<1>5. CASE CopyInvitations(r)
  <2>1. Goto(r, "read") /\ step[r] = "cfg" /\ UNCHANGED db
    BY <1>5 DEF CopyInvitations, At
  <2>2. Pending(Inviting, {"read", "write"})' /\ Pending(Inviting, {"cfg", "read", "write"})'
    BY <1>1, <1>2, <2>1, Moved
  <2>3. ListIsLoaded' /\ TableIsLoaded'
    BY <2>2 DEF ListIsLoaded, TableIsLoaded
  <2>4. /\ Pending({"access"}, {"cfg", "read", "write"}) => Pending({"access"}, {"cfg", "read", "write"})'
        /\ Pending({"raw"}, {"cfg", "read"})' => Pending({"raw"}, {"cfg", "read"})
    BY <1>1, <1>3, <2>1, Moved
  <2>5. PolicyIsLoaded' /\ TakenOverIsEdited'
    BY <1>1, <2>4 DEF FileInv, PolicyIsLoaded, TakenOverIsEdited
  <2> QED
    BY <1>4, <2>3, <2>5 DEF FileInv
<1>6. CASE StoreInvitation(r)
  <2>1. PICK s \in {"cfg", "done"} : Goto(r, s) /\ (s = "done" => UNCHANGED db)
    BY <1>6 DEF StoreInvitation
  <2>2. step[r] = "new" /\ UNCHANGED invs
    BY <1>6 DEF StoreInvitation, At, memory
  <2>3. /\ Pending(Inviting, {"read", "write"}) => Pending(Inviting, {"read", "write"})'
        /\ Pending(Inviting, {"cfg", "read", "write"}) => Pending(Inviting, {"cfg", "read", "write"})'
        /\ s = "cfg" => Pending(Inviting, {"cfg", "read", "write"})'
        /\ Pending({"access"}, {"cfg", "read", "write"}) => Pending({"access"}, {"cfg", "read", "write"})'
        /\ Pending({"raw"}, {"cfg", "read"})' => Pending({"raw"}, {"cfg", "read"})
    BY <1>1, <1>2, <1>3, <2>1, <2>2, Moved
  <2>4. ListIsLoaded' /\ PolicyIsLoaded' /\ TakenOverIsEdited'
    BY <1>1, <2>2, <2>3 DEF FileInv, ListIsLoaded, PolicyIsLoaded, TakenOverIsEdited
  <2>5. TableIsLoaded'
    BY <1>1, <2>1, <2>3 DEF FileInv, TableIsLoaded
  <2> QED
    BY <1>4, <2>4, <2>5 DEF FileInv
<1> QED
  BY <1>5, <1>6

LEMMA PoliciesKeepFileInv ==
  ASSUME TypeOK, FileInv, NEW r \in Requests, SetPolicy(r) \/ SetSettings(r) \/ TakeOver(r)
  PROVE  FileInv'
<1>1. UNCHANGED <<db, invs, file, seen, watcher, loaded, job, behind, edited>>
  BY DEF SetPolicy, SetSettings, TakeOver, memory, watching, history
<1>2. LoadedIsFile'
  BY <1>1 DEF FileInv, LoadedIsFile
<1>3. PICK s \in {"cfg", "read", "done"} : Goto(r, s)
  BY DEF SetPolicy, SetSettings, TakeOver
<1>4. job[r].kind \notin Inviting
  BY DEF SetPolicy, SetSettings, TakeOver, At, Inviting
<1>5. /\ Pending(Inviting, {"read", "write"}) => Pending(Inviting, {"read", "write"})'
      /\ Pending(Inviting, {"cfg", "read", "write"}) => Pending(Inviting, {"cfg", "read", "write"})'
  BY <1>1, <1>3, <1>4, Moved
<1>6. ListIsLoaded' /\ TableIsLoaded'
  BY <1>1, <1>5 DEF FileInv, ListIsLoaded, TableIsLoaded
<1>7. PolicyIsLoaded'
  <2>1. CASE SetPolicy(r)
    <3>1. job[r].kind \in {"access"} /\ (Goto(r, "cfg") \/ Goto(r, "read"))
      BY <2>1 DEF SetPolicy, At
    <3>2. Pending({"access"}, {"cfg", "read", "write"})'
      BY <1>1, <3>1, Moved
    <3> QED
      BY <3>2 DEF PolicyIsLoaded
  <2>2. CASE SetSettings(r)
    <3>1. job[r].kind \notin {"access"} /\ UNCHANGED policy
      BY <2>2 DEF SetSettings, At, memory
    <3>2. Pending({"access"}, {"cfg", "read", "write"}) => Pending({"access"}, {"cfg", "read", "write"})'
      BY <1>1, <1>3, <3>1, Moved
    <3> QED
      BY <1>1, <3>1, <3>2 DEF FileInv, PolicyIsLoaded
  <2>3. CASE TakeOver(r)
    <3>1. job[r].kind \in {"raw"} /\ step[r] \in {"cfg", "read"}
      BY <2>3 DEF TakeOver, At
    <3>2. edited
      BY <3>1, <1>1, <1>3, Moved DEF FileInv, TakenOverIsEdited
    <3> QED
      BY <1>1, <3>2 DEF PolicyIsLoaded
  <2> QED
    BY <2>1, <2>2, <2>3
<1>8. TakenOverIsEdited'
  <2>1. CASE TakeOver(r)
    <3>1. job[r].kind \in {"raw"} /\ step[r] \in {"cfg", "read"}
      BY <2>1 DEF TakeOver, At
    <3>2. edited
      BY <3>1, <1>1, <1>3, Moved DEF FileInv, TakenOverIsEdited
    <3> QED
      BY <1>1, <3>2 DEF TakenOverIsEdited
  <2>2. CASE SetPolicy(r) \/ SetSettings(r)
    <3>1. job[r].kind \notin {"raw"}
      BY <2>2 DEF SetPolicy, SetSettings, At
    <3>2. Pending({"raw"}, {"cfg", "read"})' => Pending({"raw"}, {"cfg", "read"})
      BY <1>1, <1>3, <3>1, Moved
    <3> QED
      BY <1>1, <3>2 DEF FileInv, TakenOverIsEdited
  <2> QED
    BY <2>1, <2>2
<1> QED
  BY <1>2, <1>6, <1>7, <1>8 DEF FileInv

LEMMA FilesKeepFileInv ==
  ASSUME TypeOK, FileInv, NEW r \in Requests, ReadFile(r) \/ WriteFile(r) \/ ReplaceFile(r)
  PROVE  FileInv'
<1>1. UNCHANGED <<db, invs, policy, job, watcher, loaded>>
  BY DEF ReadFile, WriteFile, ReplaceFile, memory, watching
<1>2. CASE ReadFile(r)
  <2>1. UNCHANGED <<file, seen, edited>> /\ job[r].kind \in Sync /\ step[r] = "read"
    BY <1>2 DEF ReadFile, watching, At
  <2>2. PICK s \in {"write", "done"} : Goto(r, s) /\ (s = "write" => UNCHANGED behind) /\ (s = "done" => behind')
    BY <1>2 DEF ReadFile
  <2>3. /\ s = "write" /\ Pending(Inviting, {"read", "write"}) => Pending(Inviting, {"read", "write"})'
        /\ s = "write" /\ Pending(Inviting, {"cfg", "read", "write"}) => Pending(Inviting, {"cfg", "read", "write"})'
        /\ s = "write" /\ Pending({"access"}, {"cfg", "read", "write"}) => Pending({"access"}, {"cfg", "read", "write"})'
        /\ Pending({"raw"}, {"cfg", "read"})' => Pending({"raw"}, {"cfg", "read"})
    BY <1>1, <2>1, <2>2, Moved
  <2> QED
    BY <1>1, <2>1, <2>2, <2>3
    DEF FileInv, LoadedIsFile, ListIsLoaded, TableIsLoaded, PolicyIsLoaded, TakenOverIsEdited
<1>3. CASE WriteFile(r)
  <2>1. ~seen' /\ UNCHANGED edited /\ Goto(r, "done")
    BY <1>3 DEF WriteFile, history
  <2>2. Pending({"raw"}, {"cfg", "read"})' => Pending({"raw"}, {"cfg", "read"})
    BY <1>1, <2>1, Moved
  <2> QED
    BY <2>1, <2>2
    DEF FileInv, LoadedIsFile, ListIsLoaded, TableIsLoaded, PolicyIsLoaded, TakenOverIsEdited
<1>4. CASE ReplaceFile(r)
  <2>1. ~seen' /\ edited'
    BY <1>4 DEF ReplaceFile
  <2> QED
    BY <2>1
    DEF FileInv, LoadedIsFile, ListIsLoaded, TableIsLoaded, PolicyIsLoaded, TakenOverIsEdited
<1> QED
  BY <1>2, <1>3, <1>4

LEMMA OthersKeepFileInv ==
  ASSUME TypeOK, FileInv,
         Watcher \/ Restart \/ \E g \in Regs : Validate(g) \/ AdmitDevice(g) \/ Refuse(g)
  PROVE  FileInv'
<1>1. CASE Watcher
  <2>1. UNCHANGED <<file, job, step, edited>>
    BY <1>1 DEF Watcher, WatcherStart, WatcherStat, WatcherLoad, WatcherInsert, WatcherAssign,
         requests, history
  <2>2. \A kinds, steps : Pending(kinds, steps)' = Pending(kinds, steps)
    BY <2>1 DEF Pending
  <2>3. CASE WatcherStart \/ WatcherStat \/ WatcherLoad
    BY <2>1, <2>2, <2>3
    DEF WatcherStart, WatcherStat, WatcherLoad, memory, history, FileInv, LoadedIsFile, ListIsLoaded,
        TableIsLoaded, PolicyIsLoaded, TakenOverIsEdited
  <2>4. CASE WatcherInsert
    <3>1. watcher = "insert" /\ watcher' = "assign" /\ UNCHANGED <<seen, behind, loaded>>
      BY <2>4 DEF WatcherInsert, history
    <3>2. \A d \in Devices : loaded.invs[d] # Absent => db'[d].token = loaded.invs[d]
      BY <2>4 DEF WatcherInsert, Upsert, Row
    <3> QED
      BY <2>1, <2>2, <3>1, <3>2
      DEF FileInv, LoadedIsFile, ListIsLoaded, TableIsLoaded, PolicyIsLoaded, TakenOverIsEdited
  <2>5. CASE WatcherAssign
    BY <2>1, <2>2, <2>5
    DEF WatcherAssign, history, FileInv, LoadedIsFile, ListIsLoaded, TableIsLoaded, PolicyIsLoaded,
        TakenOverIsEdited
  <2> QED
    BY <1>1, <2>3, <2>4, <2>5 DEF Watcher
<1>2. CASE Restart
  <2>1. /\ invs' = file.invs /\ policy' = file.policy /\ loaded' = file
        /\ UNCHANGED <<file, job, edited>>
    BY <1>2 DEF Restart
  <2>2. \A d \in Devices : file.invs[d] # Absent => db'[d].token = file.invs[d]
    BY <1>2 DEF Restart, Upsert, Row
  <2>3. ~Pending({"raw"}, {"cfg", "read"})'
    BY <1>2 DEF Restart, Pending
  <2> QED
    BY <2>1, <2>2, <2>3
    DEF FileInv, LoadedIsFile, ListIsLoaded, TableIsLoaded, PolicyIsLoaded, TakenOverIsEdited
<1>3. ASSUME NEW g \in Regs, Validate(g) \/ AdmitDevice(g) \/ Refuse(g) PROVE FileInv'
  <2>1. UNCHANGED <<invs, policy, file, seen, watcher, loaded, job, step, behind, edited>>
    BY <1>3 DEF Validate, AdmitDevice, Refuse, memory, watching, requests, history
  <2>2. \A d \in Devices : db'[d].token = db[d].token
    <3>1. CASE AdmitDevice(g)
      <4>1. db' = [db EXCEPT ![claim[g][1]].consumed = TRUE]
        BY <3>1 DEF AdmitDevice
      <4>2. \A d \in Devices : db[d] \in Rows
        BY DEF TypeOK
      <4> QED
        BY <4>1, <4>2 DEF TypeOK, Rows
    <3>2. CASE Validate(g) \/ Refuse(g)
      BY <3>2 DEF Validate, Refuse
    <3> QED
      BY <1>3, <3>1, <3>2
  <2>3. \A kinds, steps : Pending(kinds, steps)' = Pending(kinds, steps)
    BY <2>1 DEF Pending
  <2> QED
    BY <2>1, <2>2, <2>3
    DEF FileInv, LoadedIsFile, ListIsLoaded, TableIsLoaded, PolicyIsLoaded, TakenOverIsEdited
<1> QED
  BY <1>1, <1>2, <1>3

LEMMA StepFileInv == ASSUME TypeOK, FileInv, [ConfigNext]_configVars PROVE FileInv'
<1>1. CASE UNCHANGED configVars
  <2>1. UNCHANGED <<db, invs, policy, file, seen, watcher, loaded, job, step, behind, edited>>
    BY <1>1 DEF configVars, memory, watching, requests, history
  <2>2. \A kinds, steps : Pending(kinds, steps)' = Pending(kinds, steps)
    BY <2>1 DEF Pending
  <2> QED
    BY <2>1, <2>2
    DEF FileInv, LoadedIsFile, ListIsLoaded, TableIsLoaded, PolicyIsLoaded, TakenOverIsEdited
<1> QED
  BY <1>1, InvitationsKeepFileInv, PoliciesKeepFileInv, FilesKeepFileInv, OthersKeepFileInv
  DEF ConfigNext, Handlers

LEMMA FileInvIsEnough == ASSUME FileInv PROVE FileRules
<1>1. SUFFICES ASSUME AtRest, ~behind PROVE FileRules
  BY DEF FileRules
<1>2. \A kinds : /\ ~Pending(kinds, {"cfg", "read", "write"})
                 /\ ~Pending(kinds, {"read", "write"})
  BY <1>1 DEF Pending, AtRest
<1> QED
  BY <1>1, <1>2
  DEF FileRules, AtRest, FileInv, LoadedIsFile, ListIsLoaded, TableIsLoaded, PolicyIsLoaded

\* Whatever the console's handlers, editors, the watcher and restarts did at the same
\* time, once they are over, the file could be read and it did not change between the
\* load at a start and the watcher's first os.Stat, the list in memory, the table
\* and, without a posted or edited file, the policy are what the file says
\* (main.go:36, 182, 196-221, server.go:351-386, 528-541).
THEOREM FileIsObeyed == ASSUME ConfigAssumption PROVE ConfigSpec => []FileRules
<1>1. ConfigInit => TypeOK /\ FileInv
  BY InitTypes, InitFileInv
<1>2. TypeOK /\ FileInv /\ [ConfigNext]_configVars => (TypeOK /\ FileInv)'
  BY StepTypes, StepFileInv
<1>3. TypeOK /\ FileInv => FileRules
  BY FileInvIsEnough
<1> QED
  BY <1>1, <1>2, <1>3, PTL DEF ConfigSpec

-----------------------------------------------------------------------------
(* A token admits its device once.                                         *)

KnownList(list) == \A d \in Devices : list[d] \in asked[d] \cup {Absent}

\* Wherever a token is kept, somebody has asked for it.
TokensAreKnown ==
  /\ KnownList(file.invs) /\ KnownList(loaded.invs) /\ KnownList(invs)
  /\ \A r \in Requests : /\ KnownList(copy[r]) /\ KnownList(content[r].invs)
                         /\ At(r, {"invite"}, "cfg") => job[r].token \in asked[job[r].dev]
  /\ \A d \in Devices : db[d].token \in asked[d] \cup {Absent}

OnlyOne(set) == \A x, y \in set : x = y

\* An admission with the only token ever asked for has left its mark.
MarkStays ==
  \A d \in Devices : OnlyOne(asked[d]) =>
    /\ admitted[d] <= 1
    /\ admitted[d] = 1 => db[d].consumed /\ db[d].token \in asked[d] \ {Absent}

AskedIsFinite == \A d \in Devices : IsFiniteSet(asked[d])

OnceInv == TokensAreKnown /\ MarkStays /\ AskedIsFinite

\* What may be written to a row: another token somebody has asked for, with the mark
\* kept if it is the same one.
RowIsKept(d) ==
  \/ db'[d] = db[d]
  \/ Absent \in asked'[d] /\ db'[d] = Row(Absent, FALSE)
  \/ \E t \in asked'[d] \ {Absent} : db'[d] = Row(t, db[d].token = t /\ db[d].consumed)

AskedGrows == \A d \in Devices : asked[d] \subseteq asked'[d]

LEMMA KnownStaysKnown ==
  ASSUME AskedGrows, NEW list, KnownList(list)
  PROVE  \A d \in Devices : list[d] \in asked'[d] \cup {Absent}
BY DEF AskedGrows, KnownList

LEMMA RowsKeepTheMark ==
  ASSUME TypeOK, OnceInv, AskedGrows, UNCHANGED admitted, \A d \in Devices : RowIsKept(d)
  PROVE  MarkStays' /\ \A d \in Devices : db'[d].token \in asked'[d] \cup {Absent}
<1> SUFFICES ASSUME NEW d \in Devices
             PROVE  /\ db'[d].token \in asked'[d] \cup {Absent}
                    /\ OnlyOne(asked'[d]) =>
                         /\ admitted'[d] <= 1
                         /\ admitted'[d] = 1 => db'[d].consumed /\ db'[d].token \in asked'[d] \ {Absent}
  BY DEF MarkStays, OnlyOne
<1>1. asked[d] \subseteq asked'[d] /\ RowIsKept(d) /\ admitted'[d] = admitted[d]
  BY DEF AskedGrows
<1>2. db[d].token \in asked[d] \cup {Absent} /\ db[d].consumed \in BOOLEAN
  BY DEF OnceInv, TokensAreKnown, TypeOK, Rows
<1>3. OnlyOne(asked'[d]) =>
        /\ admitted[d] <= 1
        /\ admitted[d] = 1 => db[d].consumed /\ db[d].token \in asked[d] \ {Absent}
  BY <1>1 DEF OnceInv, MarkStays, OnlyOne
<1>4. CASE db'[d] = db[d]
  BY <1>1, <1>2, <1>3, <1>4
<1>5. CASE Absent \in asked'[d] /\ db'[d] = Row(Absent, FALSE)
  <2>1. db'[d].token = Absent
    BY <1>5 DEF Row
  <2>2. OnlyOne(asked'[d]) => admitted[d] # 1
    BY <1>1, <1>3, <1>5 DEF OnlyOne
  <2> QED
    BY <1>1, <1>3, <2>1, <2>2
<1>6. ASSUME NEW t \in asked'[d] \ {Absent}, db'[d] = Row(t, db[d].token = t /\ db[d].consumed)
      PROVE  /\ db'[d].token \in asked'[d] \cup {Absent}
             /\ OnlyOne(asked'[d]) =>
                  /\ admitted'[d] <= 1
                  /\ admitted'[d] = 1 => db'[d].consumed /\ db'[d].token \in asked'[d] \ {Absent}
  <2>1. db'[d].token = t /\ db'[d].consumed = (db[d].token = t /\ db[d].consumed)
    BY <1>6 DEF Row
  <2>2. OnlyOne(asked'[d]) /\ admitted[d] = 1 => db[d].token = t /\ db[d].consumed
    BY <1>1, <1>3 DEF OnlyOne
  <2> QED
    BY <1>1, <1>3, <2>1, <2>2
<1> QED
  BY <1>1, <1>4, <1>5, <1>6 DEF RowIsKept

LEMMA UpsertKeepsRows ==
  ASSUME NEW list, KnownList(list), UNCHANGED asked, db' = Upsert(db, list)
  PROVE  \A d \in Devices : RowIsKept(d)
<1> SUFFICES ASSUME NEW d \in Devices PROVE RowIsKept(d)
  OBVIOUS
<1>1. CASE list[d] = Absent
  BY <1>1 DEF RowIsKept, Upsert
<1>2. CASE list[d] # Absent
  <2>1. list[d] \in asked'[d] \ {Absent}
    BY <1>2 DEF KnownList
  <2>2. db'[d] = Row(list[d], db[d].token = list[d] /\ db[d].consumed)
    BY <1>2 DEF Upsert
  <2> QED
    BY <2>1, <2>2 DEF RowIsKept
<1> QED
  BY <1>1, <1>2

LEMMA InitOnce == ASSUME ConfigAssumption, ConfigInit PROVE OnceInv
<1>1. TypeOK
  BY InitTypes
<1>2. \A d \in Devices : asked[d] = {file.invs[d]} \ {Absent}
  BY DEF ConfigInit
<1>3. \A d \in Devices : db[d].token = file.invs[d]
  BY <1>1 DEF ConfigInit, Upsert, Row
<1>4. AskedIsFinite
  <2> SUFFICES ASSUME NEW d \in Devices PROVE IsFiniteSet(asked[d])
    BY DEF AskedIsFinite
  <2>1. IsFiniteSet({file.invs[d]})
    BY FS_Singleton
  <2> QED
    BY <1>2, <2>1, FS_Subset
<1>5. MarkStays
  BY DEF ConfigInit, MarkStays
<1>6. TokensAreKnown
  BY <1>2, <1>3 DEF ConfigInit, TokensAreKnown, KnownList, At
<1> QED
  BY <1>4, <1>5, <1>6 DEF OnceInv

\* A step that asks for nothing and leaves the lists alone.
LEMMA ListsUnchanged ==
  ASSUME OnceInv, UNCHANGED <<asked, file, loaded, invs, copy, content, job>>,
         \A r \in Requests : At(r, {"invite"}, "cfg")' => At(r, {"invite"}, "cfg"),
         MarkStays', \A d \in Devices : db'[d].token \in asked'[d] \cup {Absent}
  PROVE  OnceInv'
<1>1. AskedIsFinite'
  BY DEF OnceInv, AskedIsFinite
<1>2. \A r \in Requests : At(r, {"invite"}, "cfg")' => job[r].token \in asked[job[r].dev]
  BY DEF OnceInv, TokensAreKnown
<1>3. TokensAreKnown'
  BY <1>2 DEF OnceInv, TokensAreKnown, KnownList
<1> QED
  BY <1>1, <1>3 DEF OnceInv

LEMMA MarkUnchanged ==
  ASSUME OnceInv, UNCHANGED <<asked, db, admitted>>
  PROVE  /\ MarkStays' /\ AskedIsFinite'
         /\ \A d \in Devices : db'[d].token \in asked'[d] \cup {Absent}
BY DEF OnceInv, MarkStays, AskedIsFinite, TokensAreKnown

LEMMA StoreKeepsOnce ==
  ASSUME ConfigAssumption, TypeOK, OnceInv, NEW r \in Requests, StoreInvitation(r)
  PROVE  OnceInv'
<1>1. UNCHANGED <<invs, file, loaded, job, copy, content, admitted>>
  BY DEF StoreInvitation, memory, watching
<1>2. \A q \in Requests : q # r => step'[q] = step[q]
  BY DEF StoreInvitation, Goto, TypeOK
<1>3. job[r] \in RequestJobs
  BY DEF TypeOK
<1>4. CASE At(r, {"patch"}, "new")
  <2>1. UNCHANGED <<db, asked>>
    BY <1>4 DEF StoreInvitation, At
  <2>2. \A q \in Requests : At(q, {"invite"}, "cfg")' => At(q, {"invite"}, "cfg")
    BY <1>1, <1>2, <1>4 DEF At
  <2> QED
    BY <1>1, <2>1, <2>2, MarkUnchanged, ListsUnchanged
<1>5. ASSUME NEW d \in Devices, NEW t \in Tokens \cup {Absent}, Ask(d, t),
             \A e \in Devices : RowIsKept(e),
             At(r, {"invite"}, "new") => d = job[r].dev /\ t = job[r].token
      PROVE  OnceInv'
  <2>1. /\ \A e \in Devices : asked'[e] = IF e = d THEN asked[e] \cup {t} ELSE asked[e]
        /\ AskedGrows
    BY <1>5 DEF Ask, AskedGrows, TypeOK
  <2>2. MarkStays' /\ \A e \in Devices : db'[e].token \in asked'[e] \cup {Absent}
    BY <1>1, <1>5, <2>1, RowsKeepTheMark
  <2>3. AskedIsFinite'
    <3> SUFFICES ASSUME NEW e \in Devices PROVE IsFiniteSet(asked'[e])
      BY DEF AskedIsFinite
    <3>1. IsFiniteSet(asked[e])
      BY DEF OnceInv, AskedIsFinite
    <3>2. IsFiniteSet(asked[e] \cup {t})
      BY <3>1, FS_AddElement
    <3> QED
      BY <2>1, <3>1, <3>2
  <2>4. \A q \in Requests : At(q, {"invite"}, "cfg")' => job[q].token \in asked'[job[q].dev]
    <3> SUFFICES ASSUME NEW q \in Requests, At(q, {"invite"}, "cfg")'
                 PROVE  job[q].token \in asked'[job[q].dev]
      OBVIOUS
    <3>1. job[q].dev \in Devices /\ job[q].kind = "invite"
      <4>1. job[q] \in RequestJobs
        BY DEF TypeOK
      <4> QED
        BY <1>1, <4>1, JobFields DEF At
    <3>2. CASE q = r
      <4>1. At(r, {"invite"}, "new")
        BY <3>1, <3>2 DEF StoreInvitation, At
      <4> QED
        BY <1>5, <2>1, <3>1, <3>2, <4>1
    <3>3. CASE q # r
      <4>1. At(q, {"invite"}, "cfg")
        BY <1>1, <1>2, <3>3 DEF At
      <4> QED
        BY <2>1, <3>1, <4>1 DEF OnceInv, TokensAreKnown
    <3> QED
      BY <3>2, <3>3
  <2>5. TokensAreKnown'
    <3>1. /\ \A e \in Devices : /\ file.invs[e] \in asked'[e] \cup {Absent}
                                /\ loaded.invs[e] \in asked'[e] \cup {Absent}
                                /\ invs[e] \in asked'[e] \cup {Absent}
          /\ \A q \in Requests, e \in Devices : /\ copy[q][e] \in asked'[e] \cup {Absent}
                                                /\ content[q].invs[e] \in asked'[e] \cup {Absent}
      BY <2>1 DEF OnceInv, TokensAreKnown, KnownList, AskedGrows
    <3> QED
      BY <1>1, <2>2, <2>4, <3>1 DEF TokensAreKnown, KnownList
  <2> QED
    BY <2>2, <2>3, <2>5 DEF OnceInv
<1>6. CASE At(r, {"invite"}, "new")
  <2>1. /\ job[r].dev \in Devices /\ job[r].token \in Tokens
        /\ Ask(job[r].dev, job[r].token)
        /\ db' = [db EXCEPT ![job[r].dev] = Row(job[r].token, @.token = job[r].token /\ @.consumed)]
    BY <1>3, <1>6, JobFields DEF StoreInvitation, At
  <2>2. job[r].token \in asked'[job[r].dev]
    BY <2>1 DEF Ask, TypeOK
  <2>3. \A e \in Devices : RowIsKept(e)
    BY <2>1, <2>2 DEF RowIsKept, TypeOK, ConfigAssumption
  <2> QED
    BY <1>5, <2>1, <2>3
<1>7. CASE At(r, {"delete"}, "new")
  <2>1. /\ job[r].dev \in Devices /\ Ask(job[r].dev, Absent)
        /\ db' = [db EXCEPT ![job[r].dev] = Row(Absent, FALSE)]
    BY <1>3, <1>7, JobFields DEF StoreInvitation, At
  <2>2. Absent \in asked'[job[r].dev]
    BY <2>1 DEF Ask, TypeOK
  <2>3. \A e \in Devices : RowIsKept(e)
    BY <2>1, <2>2 DEF RowIsKept, TypeOK
  <2>4. ~At(r, {"invite"}, "new")
    BY <1>7 DEF At
  <2> QED
    BY <1>5, <2>1, <2>3, <2>4
<1> QED
  BY <1>4, <1>6, <1>7 DEF StoreInvitation

LEMMA HandlersKeepOnce ==
  ASSUME ConfigAssumption, TypeOK, OnceInv, NEW r \in Requests, Handlers(r)
  PROVE  OnceInv'
<1>1. CASE StoreInvitation(r)
  BY <1>1, StoreKeepsOnce
<1>2. CASE CopyInvitations(r)
  <2>1. UNCHANGED <<db, file, loaded, job, content, asked, admitted>>
    BY <1>2 DEF CopyInvitations, watching, history
  <2>2. /\ At(r, {"invite", "delete", "patch"}, "cfg") /\ job[r] \in RequestJobs
        /\ copy' = [copy EXCEPT ![r] = invs'] /\ Goto(r, "read")
    BY <1>2 DEF CopyInvitations, TypeOK
  <2>3. KnownList(invs')
    <3>1. CASE job[r].kind = "invite"
      <4>1. job[r].dev \in Devices /\ invs' = [invs EXCEPT ![job[r].dev] = job[r].token]
        BY <1>2, <2>2, <3>1, JobFields DEF CopyInvitations
      <4>2. job[r].token \in asked[job[r].dev]
        BY <2>2, <3>1 DEF OnceInv, TokensAreKnown, At
      <4> QED
        BY <4>1, <4>2 DEF OnceInv, TokensAreKnown, KnownList, TypeOK, Lists
    <3>2. CASE job[r].kind = "delete"
      <4>1. job[r].dev \in Devices /\ invs' = [invs EXCEPT ![job[r].dev] = Absent]
        BY <1>2, <2>2, <3>2, JobFields DEF CopyInvitations
      <4> QED
        BY <4>1 DEF OnceInv, TokensAreKnown, KnownList, TypeOK, Lists
    <3>3. CASE job[r].kind = "patch"
      <4>1. invs' = invs
        BY <1>2, <3>3 DEF CopyInvitations
      <4> QED
        BY <4>1 DEF OnceInv, TokensAreKnown
    <3> QED
      BY <2>2, <3>1, <3>2, <3>3 DEF At
  <2>4. \A q \in Requests : KnownList(copy'[q])
    <3>1. \A q \in Requests : copy'[q] = IF q = r THEN invs' ELSE copy[q]
      BY <2>2 DEF TypeOK
    <3> QED
      BY <2>3, <3>1 DEF OnceInv, TokensAreKnown
  <2>5. \A q \in Requests : At(q, {"invite"}, "cfg")' => At(q, {"invite"}, "cfg")
    BY <2>1, <2>2 DEF At, Goto, TypeOK
  <2>6. MarkStays' /\ AskedIsFinite' /\ \A d \in Devices : db'[d].token \in asked'[d] \cup {Absent}
    BY <2>1, MarkUnchanged
  <2>7. TokensAreKnown'
    BY <2>1, <2>3, <2>4, <2>5, <2>6 DEF OnceInv, TokensAreKnown, KnownList
  <2> QED
    BY <2>6, <2>7 DEF OnceInv
<1>3. CASE SetPolicy(r) \/ SetSettings(r) \/ TakeOver(r)
  <2>1. UNCHANGED <<db, invs, file, loaded, job, copy, content, asked, admitted>>
    BY <1>3 DEF SetPolicy, SetSettings, TakeOver, memory, watching, history
  <2>2. job[r].kind # "invite" /\ \A q \in Requests : q # r => step'[q] = step[q]
    BY <1>3 DEF SetPolicy, SetSettings, TakeOver, At, Goto, TypeOK
  <2>3. \A q \in Requests : At(q, {"invite"}, "cfg")' => At(q, {"invite"}, "cfg")
    BY <2>1, <2>2 DEF At
  <2> QED
    BY <2>1, <2>3, MarkUnchanged, ListsUnchanged
<1>4. CASE ReadFile(r)
  <2>1. UNCHANGED <<db, invs, file, loaded, job, copy, asked, admitted>>
    BY <1>4 DEF ReadFile, memory, watching
  <2>2. \A q \in Requests : content'[q] = content[q] \/ content'[q] = file
    BY <1>4 DEF ReadFile, TypeOK
  <2>3. \A q \in Requests : At(q, {"invite"}, "cfg")' => At(q, {"invite"}, "cfg")
    BY <1>4, <2>1 DEF ReadFile, At, Goto, TypeOK
  <2>4. MarkStays' /\ AskedIsFinite' /\ \A d \in Devices : db'[d].token \in asked'[d] \cup {Absent}
    BY <2>1, MarkUnchanged
  <2>5. TokensAreKnown'
    BY <2>1, <2>2, <2>3, <2>4 DEF OnceInv, TokensAreKnown, KnownList
  <2> QED
    BY <2>4, <2>5 DEF OnceInv
<1>5. CASE WriteFile(r)
  <2>1. UNCHANGED <<db, invs, loaded, job, copy, content, asked, admitted>>
    BY <1>5 DEF WriteFile, memory, history
  <2>2. file'.invs = copy[r] \/ file'.invs = content[r].invs
    BY <1>5 DEF WriteFile, TypeOK, Configs
  <2>3. \A q \in Requests : At(q, {"invite"}, "cfg")' => At(q, {"invite"}, "cfg")
    BY <1>5, <2>1 DEF WriteFile, At, Goto, TypeOK
  <2>4. MarkStays' /\ AskedIsFinite' /\ \A d \in Devices : db'[d].token \in asked'[d] \cup {Absent}
    BY <2>1, MarkUnchanged
  <2>5. TokensAreKnown'
    BY <2>1, <2>2, <2>3, <2>4 DEF OnceInv, TokensAreKnown, KnownList
  <2> QED
    BY <2>4, <2>5 DEF OnceInv
<1>6. CASE ReplaceFile(r)
  <2>1. UNCHANGED <<db, invs, loaded, job, copy, content, admitted>> /\ file' = job[r].config
    BY <1>6 DEF ReplaceFile, memory
  <2>2. \A d \in Devices : asked'[d] = asked[d] \cup ({file'.invs[d]} \ {Absent})
    BY <1>6, <2>1 DEF ReplaceFile, Changed
  <2>3. AskedGrows
    BY <2>2 DEF AskedGrows
  <2>4. \A q \in Requests : At(q, {"invite"}, "cfg")' => At(q, {"invite"}, "cfg") /\ job[q].dev \in Devices
    <3>1. \A q \in Requests : job[q] \in RequestJobs
      BY DEF TypeOK
    <3>2. \A q \in Requests : At(q, {"invite"}, "cfg") => job[q].dev \in Devices
      BY <3>1, JobFields DEF At
    <3> QED
      BY <1>6, <2>1, <3>2 DEF ReplaceFile, At, Goto, TypeOK
  <2>5. MarkStays' /\ \A d \in Devices : db'[d].token \in asked'[d] \cup {Absent}
    BY <2>1, <2>3, RowsKeepTheMark DEF RowIsKept
  <2>6. AskedIsFinite'
    <3> SUFFICES ASSUME NEW d \in Devices PROVE IsFiniteSet(asked'[d])
      BY DEF AskedIsFinite
    <3>1. IsFiniteSet(asked[d]) /\ IsFiniteSet(asked[d] \cup {file'.invs[d]})
      BY FS_AddElement DEF OnceInv, AskedIsFinite
    <3> QED
      BY <2>2, <3>1, FS_Subset
  <2>7. /\ \A d \in Devices : /\ loaded.invs[d] \in asked'[d] \cup {Absent}
                              /\ invs[d] \in asked'[d] \cup {Absent}
                              /\ file'.invs[d] \in asked'[d] \cup {Absent}
        /\ \A q \in Requests, d \in Devices : /\ copy[q][d] \in asked'[d] \cup {Absent}
                                              /\ content[q].invs[d] \in asked'[d] \cup {Absent}
        /\ \A q \in Requests : At(q, {"invite"}, "cfg")' => job[q].token \in asked'[job[q].dev]
    BY <2>2, <2>4 DEF OnceInv, TokensAreKnown, KnownList
  <2>8. TokensAreKnown'
    BY <2>1, <2>5, <2>7 DEF TokensAreKnown, KnownList
  <2> QED
    BY <2>5, <2>6, <2>8 DEF OnceInv
<1> QED
  BY <1>1, <1>2, <1>3, <1>4, <1>5, <1>6 DEF Handlers

LEMMA WatcherKeepsOnce == ASSUME TypeOK, OnceInv, Watcher PROVE OnceInv'
<1>1. UNCHANGED <<file, job, step, copy, content, asked, admitted>>
  BY DEF Watcher, WatcherStart, WatcherStat, WatcherLoad, WatcherInsert, WatcherAssign,
         requests, history
<1>2. MarkStays' /\ \A d \in Devices : db'[d].token \in asked'[d] \cup {Absent}
  <2>1. CASE WatcherInsert
    <3>1. \A d \in Devices : RowIsKept(d)
      BY <1>1, <2>1, UpsertKeepsRows DEF WatcherInsert, OnceInv, TokensAreKnown
    <3> QED
      BY <1>1, <3>1, RowsKeepTheMark DEF AskedGrows
  <2>2. CASE UNCHANGED db
    BY <1>1, <2>2, MarkUnchanged
  <2> QED
    BY <2>1, <2>2 DEF Watcher, WatcherStart, WatcherStat, WatcherLoad, WatcherAssign
<1>3. (loaded' = loaded \/ loaded' = file) /\ (invs' = invs \/ invs' = loaded.invs)
  BY DEF Watcher, WatcherStart, WatcherStat, WatcherLoad, WatcherInsert, WatcherAssign, memory
<1>4. TokensAreKnown'
  BY <1>1, <1>2, <1>3 DEF OnceInv, TokensAreKnown, KnownList, At
<1> QED
  BY <1>1, <1>2, <1>4 DEF OnceInv, AskedIsFinite

LEMMA RestartKeepsOnce == ASSUME TypeOK, OnceInv, Restart PROVE OnceInv'
<1>1. /\ UNCHANGED <<file, job, copy, content, asked, admitted>>
      /\ loaded' = file /\ invs' = file.invs
      /\ \A r \in Requests : step'[r] \in {"new", "done"}
  BY DEF Restart
<1>2. \A d \in Devices : RowIsKept(d)
  BY <1>1, UpsertKeepsRows DEF Restart, OnceInv, TokensAreKnown
<1>3. MarkStays' /\ \A d \in Devices : db'[d].token \in asked'[d] \cup {Absent}
  BY <1>1, <1>2, RowsKeepTheMark DEF AskedGrows
<1>4. TokensAreKnown'
  BY <1>1, <1>3 DEF OnceInv, TokensAreKnown, KnownList, At
<1> QED
  BY <1>1, <1>3, <1>4 DEF OnceInv, AskedIsFinite

LEMMA AdmissionKeepsOnce ==
  ASSUME ConfigAssumption, TypeOK, OnceInv, NEW g \in Regs, AdmitDevice(g)
  PROVE  OnceInv'
<1>1. UNCHANGED <<invs, file, loaded, job, step, copy, content, asked>>
  BY DEF AdmitDevice, memory, watching, requests
<1>2. PICK a \in Devices : a = claim[g][1]
  BY DEF TypeOK
<1>3. db[a].token \in Tokens /\ db[a].consumed = FALSE
  BY <1>2 DEF AdmitDevice, Valid, Row, TypeOK
<1>4. /\ db' = [db EXCEPT ![a].consumed = TRUE]
      /\ admitted' = [admitted EXCEPT ![a] = @ + 1]
  BY <1>2 DEF AdmitDevice
<1>5. \A d \in Devices : /\ db'[d].token = db[d].token
                         /\ d # a => db'[d] = db[d] /\ admitted'[d] = admitted[d]
                         /\ d = a => db'[d].consumed = TRUE /\ admitted'[d] = admitted[d] + 1
                         /\ admitted[d] \in Nat
  <2>1. \A d \in Devices : db[d] \in Rows /\ admitted[d] \in Nat
    BY DEF TypeOK
  <2> QED
    BY <1>4, <2>1 DEF TypeOK, Rows
<1>6. MarkStays'
  <2> SUFFICES ASSUME NEW d \in Devices, OnlyOne(asked[d])
               PROVE  /\ admitted'[d] <= 1
                      /\ admitted'[d] = 1 => db'[d].consumed /\ db'[d].token \in asked'[d] \ {Absent}
    BY <1>1 DEF MarkStays, OnlyOne
  <2>1. /\ admitted[d] <= 1
        /\ admitted[d] = 1 => db[d].consumed /\ db[d].token \in asked[d] \ {Absent}
        /\ db[d].token \in asked[d] \cup {Absent}
    BY DEF OnceInv, MarkStays, TokensAreKnown
  <2>2. CASE d = a
    <3>1. db[d].token # Absent /\ admitted[d] = 0
      BY <1>3, <1>5, <2>1, <2>2 DEF ConfigAssumption
    <3> QED
      BY <1>1, <1>5, <2>1, <2>2, <3>1
  <2>3. CASE d # a
    BY <1>1, <1>5, <2>1, <2>3
  <2> QED
    BY <2>2, <2>3
<1>7. \A d \in Devices : db'[d].token \in asked'[d] \cup {Absent}
  BY <1>1, <1>5 DEF OnceInv, TokensAreKnown
<1>8. \A r \in Requests : At(r, {"invite"}, "cfg")' => At(r, {"invite"}, "cfg")
  BY <1>1 DEF At
<1> QED
  BY <1>1, <1>6, <1>7, <1>8, ListsUnchanged

LEMMA StepOnce ==
  ASSUME ConfigAssumption, TypeOK, OnceInv, [ConfigNext]_configVars PROVE OnceInv'
<1>1. ASSUME UNCHANGED <<db, invs, file, loaded, job, step, copy, content, asked, admitted>>
      PROVE  OnceInv'
  <2>1. \A r \in Requests : At(r, {"invite"}, "cfg")' => At(r, {"invite"}, "cfg")
    BY <1>1 DEF At
  <2> QED
    BY <1>1, <2>1, MarkUnchanged, ListsUnchanged
<1>2. CASE UNCHANGED configVars
  BY <1>1, <1>2 DEF configVars, memory, watching, requests, history
<1>3. ASSUME NEW g \in Regs, Validate(g) \/ Refuse(g) PROVE OnceInv'
  BY <1>1, <1>3 DEF Validate, Refuse, memory, watching, requests, history
<1> QED
  BY <1>2, <1>3, HandlersKeepOnce, WatcherKeepsOnce, RestartKeepsOnce, AdmissionKeepsOnce
  DEF ConfigNext

LEMMA OnceInvIsEnough == ASSUME TypeOK, OnceInv PROVE OncePerToken
<1> SUFFICES ASSUME NEW d \in Devices, Cardinality(asked[d]) <= 1 PROVE admitted[d] <= 1
  BY DEF OncePerToken
<1>1. IsFiniteSet(asked[d])
  BY DEF OnceInv, AskedIsFinite
<1>2. Cardinality(asked[d]) \in Nat
  BY <1>1, FS_CardinalityType
<1>3. asked[d] = {} \/ \E x : asked[d] = {x}
  <2>1. Cardinality(asked[d]) = 0 \/ Cardinality(asked[d]) = 1
    BY <1>2
  <2> QED
    BY <1>1, <2>1, FS_EmptySet, FS_Singleton
<1>4. OnlyOne(asked[d])
  BY <1>3 DEF OnlyOne
<1> QED
  BY <1>4 DEF OnceInv, MarkStays

\* However requests, reloads, rewritten files, restarts and registrations meet, a
\* device is admitted once as long as only one token was ever asked for it
\* (sqlite.go:143-158, 194-230).
THEOREM TokenAdmitsOnce == ASSUME ConfigAssumption PROVE ConfigSpec => []OncePerToken
<1>1. ConfigInit => TypeOK /\ OnceInv
  BY InitTypes, InitOnce
<1>2. TypeOK /\ OnceInv /\ [ConfigNext]_configVars => (TypeOK /\ OnceInv)'
  BY StepTypes, StepOnce
<1>3. TypeOK /\ OnceInv => OncePerToken
  BY OnceInvIsEnough
<1> QED
  BY <1>1, <1>2, <1>3, PTL DEF ConfigSpec
=============================================================================
