------------------------------ MODULE RelayConfig ------------------------------
(***************************************************************************)
(* The relay's configuration while it runs: relay.yaml, the configuration  *)
(* in memory, the table of enrollment invitations, and those who change    *)
(* them: the web console's handlers, an editor, the configuration watcher, *)
(* registrations that consume an invitation, and a restart.                *)
(*                                                                         *)
(* Of the configuration the invitations and the access policy are kept;    *)
(* the settings request stands for the handlers that rewrite the rest.     *)
(* Expiry is data: an invitation may be refused at any time, and a file    *)
(* may fail to load at any time, because one of its invitations has        *)
(* expired or because somebody is just writing it.  The file exists, and   *)
(* every change gives it a later time than it ever had, so that lastMod    *)
(* is the file's time or an earlier one.                                   *)
(***************************************************************************)
EXTENDS Naturals, FiniteSets

CONSTANTS
  Devices, Tokens, Policies,
  Absent,       \* no token
  Requests,     \* bound: requests to the console and edits of the file
  RequestKinds, \* what they may be
  Regs,         \* bound: registrations with an invitation
  MaxRestarts   \* bound

ConfigAssumption == Absent \notin Tokens /\ IsFiniteSet(Devices)

Lists == [Devices -> Tokens \cup {Absent}]

VARIABLES
  db,        \* enrollment_invitations: token and whether it is consumed
  invs,      \* cfg.Security.EnrollmentInvitations
  policy,    \* cfg.Security.ControllerAccess
  file,      \* relay.yaml
  seen,      \* lastMod is the file's time; before there is one: as it was loaded
  job,       \* what a request is asked for
  step,      \* how far its handler is: new, cfg, read, write or done
  copy,      \* invsCopy of a request
  content,   \* the file as its Sync has read it
  watcher,   \* start, idle, load, insert, assign or policy
  loaded,    \* reloaded
  reg,       \* a registration: new, valid, admitted or refused
  claim,     \* its device and token
  restarts,
  \* history
  behind,    \* since the last load: one or a Sync failed, or a change went unseen
  edited,    \* somebody has posted or edited the whole file
  asked,     \* tokens anybody has asked for a device; Absent when one was deleted
  admitted   \* registrations that were admitted with a device's invitation

memory   == <<invs, policy>>
requests == <<job, step, copy, content>>
watching == <<seen, watcher, loaded>>
regs     == <<reg, claim>>
history  == <<behind, edited, asked, admitted>>
configVars == <<db, memory, file, watching, requests, regs, restarts, history>>

Row(t, c) == [token |-> t, consumed |-> c]
Configs == [invs : Lists, policy : Policies]

RequestJobs ==
  {j \in [kind : {"invite"}, dev : Devices, token : Tokens]
         \cup [kind : {"delete", "patch"}, dev : Devices]
         \cup [kind : {"access"}, policy : Policies]
         \cup [kind : {"settings"}]
         \cup [kind : {"raw", "edit"}, config : Configs] : j.kind \in RequestKinds}

\* Mutant of Upsert: the conflict clause always makes the invitation available.
UpsertAgain(rows, list) ==
  [d \in Devices |-> IF list[d] = Absent THEN rows[d] ELSE Row(list[d], FALSE)]

\* UpsertEnrollmentInvitation for every invitation of a list: a consumed one stays
\* so as long as its token stays.
Upsert(rows, list) ==
  [d \in Devices |->
     IF list[d] = Absent THEN rows[d]
     ELSE Row(list[d], rows[d].token = list[d] /\ rows[d].consumed)]

\* The relay has loaded its file and the database knows the invitations.  From
\* here on the file may change, and the console serves requests, but nobody
\* watches yet.
ConfigInit ==
  /\ file \in Configs
  /\ invs = file.invs /\ policy = file.policy
  /\ db = Upsert([d \in Devices |-> Row(Absent, FALSE)], file.invs)
  /\ job \in [Requests -> RequestJobs] /\ step = [r \in Requests |-> "new"]
  /\ copy = [r \in Requests |-> file.invs] /\ content = [r \in Requests |-> file]
  /\ seen = TRUE /\ watcher = "start" /\ loaded = file
  /\ claim \in [Regs -> Devices \X Tokens] /\ reg = [g \in Regs |-> "new"]
  /\ restarts = 0 /\ behind = FALSE /\ edited = FALSE
  /\ asked = [d \in Devices |-> {file.invs[d]} \ {Absent}]
  /\ admitted = [d \in Devices |-> 0]

-----------------------------------------------------------------------------
(* The console's handlers.                                                 *)

At(r, kinds, s) == job[r].kind \in kinds /\ step[r] = s
Goto(r, s) == step' = [step EXCEPT ![r] = s]
Ask(d, t) == asked' = [asked EXCEPT ![d] = @ \cup {t}]
Changed(config) ==
  asked' = [d \in Devices |-> asked[d] \cup ({config.invs[d]} \ {Absent})]

\* The database first.
StoreInvitation(r) ==
  /\ \/ /\ At(r, {"invite"}, "new") /\ Goto(r, "cfg")
        /\ db' = [db EXCEPT ![job[r].dev] = Row(job[r].token, @.token = job[r].token /\ @.consumed)]
        /\ Ask(job[r].dev, job[r].token)
     \/ /\ At(r, {"delete"}, "new") /\ Goto(r, "cfg")
        /\ db' = [db EXCEPT ![job[r].dev] = Row(Absent, FALSE)]
        /\ Ask(job[r].dev, Absent)
     \/ /\ At(r, {"patch"}, "new")
        /\ Goto(r, IF db[job[r].dev].token = Absent THEN "done" ELSE "cfg")
        /\ UNCHANGED <<db, asked>>
  /\ UNCHANGED <<memory, file, watching, job, copy, content, regs, restarts, behind, edited,
                 admitted>>

\* Then, under cfgMu, the list in memory and its copy.
CopyInvitations(r) ==
  /\ At(r, {"invite", "delete", "patch"}, "cfg") /\ Goto(r, "read")
  /\ invs' = CASE job[r].kind = "invite" -> [invs EXCEPT ![job[r].dev] = job[r].token]
               [] job[r].kind = "delete" -> [invs EXCEPT ![job[r].dev] = Absent]
               [] OTHER -> invs
  /\ copy' = [copy EXCEPT ![r] = invs']
  /\ UNCHANGED <<db, policy, file, watching, job, content, regs, restarts, history>>

\* handleAccess: UpdateAccessPolicy, and the same again under cfgMu.
SetPolicy(r) ==
  /\ \/ At(r, {"access"}, "new") /\ Goto(r, "cfg")
     \/ At(r, {"access"}, "cfg") /\ Goto(r, "read")
  /\ policy' = job[r].policy
  /\ UNCHANGED <<db, invs, file, watching, job, copy, content, regs, restarts, history>>

\* handleConfig with structured settings: none of them is kept here.
SetSettings(r) ==
  /\ At(r, {"settings"}, "new") /\ Goto(r, "read")
  /\ UNCHANGED <<db, memory, file, watching, job, copy, content, regs, restarts, history>>

Sync == {"invite", "delete", "patch", "access", "settings"}

\* Sync...ToConfigFile reads the file, or fails with a warning.
ReadFile(r) ==
  /\ At(r, Sync, "read")
  /\ \/ Goto(r, "write") /\ content' = [content EXCEPT ![r] = file] /\ UNCHANGED behind
     \/ Goto(r, "done") /\ behind' = TRUE /\ UNCHANGED content
  /\ UNCHANGED <<db, memory, file, watching, job, copy, regs, restarts, edited, asked, admitted>>

\* And writes it back with its own section replaced.
WriteFile(r) ==
  /\ At(r, Sync, "write") /\ Goto(r, "done")
  /\ file' = CASE job[r].kind \in {"invite", "delete", "patch"} -> [content[r] EXCEPT !.invs = copy[r]]
               [] job[r].kind = "access" -> [content[r] EXCEPT !.policy = job[r].policy]
               [] OTHER -> content[r]
  /\ seen' = FALSE
  /\ UNCHANGED <<db, memory, watcher, loaded, job, copy, content, regs, restarts, history>>

\* The whole file: posted to handleConfig, or by an editor.
ReplaceFile(r) ==
  /\ At(r, {"raw", "edit"}, "new")
  /\ file' = job[r].config /\ seen' = FALSE /\ Changed(job[r].config)
  /\ Goto(r, IF job[r].kind = "raw" THEN "cfg" ELSE "done")
  /\ edited' = TRUE
  /\ UNCHANGED <<db, memory, watcher, loaded, job, copy, content, regs, restarts, behind, admitted>>

\* What handleConfig then takes over: the policy, not the invitations; once under
\* cfgMu, and again by UpdateAccessPolicy.
TakeOver(r) ==
  /\ \/ At(r, {"raw"}, "cfg") /\ Goto(r, "read")
     \/ At(r, {"raw"}, "read") /\ Goto(r, "done")
  /\ policy' = job[r].config.policy
  /\ UNCHANGED <<db, invs, file, watching, job, copy, content, regs, restarts, history>>

-----------------------------------------------------------------------------
(* startConfigWatcher.                                                     *)

\* The first os.Stat, some time after the load: what has changed in between is
\* taken for seen.
WatcherStart ==
  /\ watcher = "start" /\ watcher' = "idle"
  /\ seen' = TRUE /\ behind' = (behind \/ ~seen)
  /\ UNCHANGED <<db, memory, file, loaded, requests, regs, restarts, edited, asked, admitted>>

\* A tick finds a newer time and remembers it before it loads.
WatcherStat ==
  /\ watcher = "idle" /\ ~seen
  /\ seen' = TRUE /\ watcher' = "load"
  /\ UNCHANGED <<db, memory, file, loaded, requests, regs, restarts, history>>

\* A file that fails to load is left alone.
WatcherLoad ==
  /\ watcher = "load"
  /\ \/ watcher' = "insert" /\ loaded' = file /\ behind' = FALSE
     \/ watcher' = "idle" /\ behind' = TRUE /\ UNCHANGED loaded
  /\ UNCHANGED <<db, memory, file, seen, requests, regs, restarts, edited, asked, admitted>>

\* Mutant of WatcherInsert: the time is taken once more after the load.
WatcherInsertStat ==
  /\ watcher = "insert" /\ watcher' = "assign" /\ seen' = TRUE
  /\ db' = Upsert(db, loaded.invs)
  /\ UNCHANGED <<memory, file, loaded, requests, regs, restarts, history>>

\* Every invitation of the file goes into the database.
WatcherInsert ==
  /\ watcher = "insert" /\ watcher' = "assign"
  /\ db' = Upsert(db, loaded.invs)
  /\ UNCHANGED <<memory, file, seen, loaded, requests, regs, restarts, history>>

\* Without any lock, then once more by UpdateAccessPolicy.
WatcherAssign ==
  /\ \/ watcher = "assign" /\ watcher' = "policy" /\ invs' = loaded.invs
     \/ watcher = "policy" /\ watcher' = "idle" /\ UNCHANGED invs
  /\ policy' = loaded.policy
  /\ UNCHANGED <<db, file, seen, loaded, requests, regs, restarts, history>>

-----------------------------------------------------------------------------
(* Registrations.                                                          *)

Valid(g) == db[claim[g][1]] = Row(claim[g][2], FALSE)

\* ValidateEnrollmentInvitation before AUTH_OK.  The relay listens for devices
\* after it has started the watcher.
Validate(g) ==
  /\ reg[g] = "new" /\ Valid(g) /\ watcher # "start"
  /\ reg' = [reg EXCEPT ![g] = "valid"]
  /\ UNCHANGED <<db, memory, file, watching, requests, claim, restarts, history>>

\* Mutant of AdmitDevice: the device is created without a second look.
AdmitUnchecked(g) ==
  /\ reg[g] = "valid"
  /\ reg' = [reg EXCEPT ![g] = "admitted"]
  /\ db' = [db EXCEPT ![claim[g][1]].consumed = TRUE]
  /\ admitted' = [admitted EXCEPT ![claim[g][1]] = @ + 1]
  /\ UNCHANGED <<memory, file, watching, requests, claim, restarts, behind, edited, asked>>

\* CreateAgentWithEnrollment with REGISTER or CONNECT_REQUEST.
AdmitDevice(g) ==
  /\ reg[g] = "valid" /\ Valid(g)
  /\ reg' = [reg EXCEPT ![g] = "admitted"]
  /\ db' = [db EXCEPT ![claim[g][1]].consumed = TRUE]
  /\ admitted' = [admitted EXCEPT ![claim[g][1]] = @ + 1]
  /\ UNCHANGED <<memory, file, watching, requests, claim, restarts, behind, edited, asked>>

\* The connection breaks, or the invitation has gone or expired meanwhile.
Refuse(g) ==
  /\ reg[g] = "valid" /\ reg' = [reg EXCEPT ![g] = "refused"]
  /\ UNCHANGED <<db, memory, file, watching, requests, claim, restarts, history>>

-----------------------------------------------------------------------------
\* The relay stops at any point, and starts again with the file, if it loads, and
\* the database, as far as ConfigInit.
Restart ==
  /\ restarts < MaxRestarts /\ restarts' = restarts + 1
  /\ step' = [r \in Requests |-> IF step[r] = "new" THEN "new" ELSE "done"]
  /\ reg' = [g \in Regs |-> IF reg[g] = "valid" THEN "refused" ELSE reg[g]]
  /\ invs' = file.invs /\ policy' = file.policy
  /\ db' = Upsert(db, file.invs)
  /\ seen' = TRUE /\ watcher' = "start" /\ loaded' = file /\ behind' = FALSE
  /\ UNCHANGED <<file, job, copy, content, claim, edited, asked, admitted>>

Handlers(r) ==
  StoreInvitation(r) \/ CopyInvitations(r) \/ SetPolicy(r) \/ SetSettings(r) \/ ReadFile(r)
  \/ WriteFile(r) \/ ReplaceFile(r) \/ TakeOver(r)
Watcher == WatcherStart \/ WatcherStat \/ WatcherLoad \/ WatcherInsert \/ WatcherAssign

ConfigNext ==
  \/ \E r \in Requests : Handlers(r)
  \/ Watcher \/ Restart
  \/ \E g \in Regs : Validate(g) \/ AdmitDevice(g) \/ Refuse(g)

ConfigSpec == ConfigInit /\ [][ConfigNext]_configVars

-----------------------------------------------------------------------------
(* Properties.                                                             *)

AtRest == watcher = "idle" /\ seen /\ \A r \in Requests : step[r] \in {"new", "done"}

\* Whatever requests, edits and reloads ran at the same time: when they are over,
\* what the relay works with is what the file says, so a restart changes nothing.
\* Only these may leave them apart: a file that could not be read, a change that
\* came between the load at the start and the watcher's first os.Stat
\* (main.go:36, 182), and a policy posted with a whole file, which is taken over
\* after the write (main.go:196-221, server.go:351-386, 528-541).
FileRules ==
  AtRest /\ ~behind =>
    /\ invs = file.invs
    /\ \A d \in Devices : file.invs[d] # Absent => db[d].token = file.invs[d]
    /\ ~edited => policy = file.policy

\* A token admits its device once, however often the relay restarts, the file is
\* reloaded or rewritten and registrations meet, as long as nobody has asked for
\* another token of the device or deleted it (sqlite.go:143-158, 194-230).
OncePerToken ==
  \A d \in Devices : Cardinality(asked[d]) <= 1 => admitted[d] <= 1
=============================================================================
