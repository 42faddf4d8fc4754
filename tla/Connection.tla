----------------------------- MODULE Connection -----------------------------
(***************************************************************************)
(* cmd/device-checker: the commands that connect this computer to the      *)
(* service, disconnect it, and report under its identity.  Each command is *)
(* a process of its own that shares two files, the identity and the        *)
(* pairing, with the others; pair and disconnect do not take the collector *)
(* lock.  Every step ends at a request or at a write.                      *)
(***************************************************************************)
EXTENDS Statuses, FiniteSets

CONSTANTS
  Ids,          \* the device identities that may ever be generated
  None, Torn,   \* no file; a pairing file that was truncated and not written
  Shells,       \* the processes that connect and disconnect, one after another
  Reporters,    \* the processes that send reports: `report`, or the resident `run`
  Answers,      \* the HTTP statuses the service may answer, 0 for none
  FaultKinds,   \* the kinds of fault this instance meets
  MaxFaults     \* bound: how many faults

ASSUME NotIdentities == None \notin Ids /\ Torn \notin Ids /\ None # Torn
ASSUME OneCommandEach == Shells \cap Reporters = {}
ASSUME BoundIsNatural == MaxFaults \in Nat

Procs == Shells \cup Reporters

VARIABLES
  pc,            \* where each process is
  dev,           \* the identity it has loaded
  identityFile,  \* the identity that is stored
  pairingFile,   \* the identity whose pairing is stored
  registration,  \* the service: what it knows of each identity
  created,       \* history: the identities that were generated
  signedOff,     \* history: those the service revoked because disconnect asked
  dropped,       \* history: those whose file disconnect deleted
  told,          \* the line of each process about its last run, as far as it is settled
  faults         \* how many faults happened

files   == <<identityFile, pairingFile>>
history == <<created, signedOff, dropped>>
vars    == <<pc, dev, files, registration, history, told, faults>>

------------------------------------------------------------------------------
Pairing       == {"create", "request", "listen", "exchange", "truncate", "write"}
Disconnecting == {"challenge", "revoke", "unpair", "forget"}

\* The loopback listener is open from before the first request until the callback.
Listening(p) == pc[p] \in {"request", "listen"}

\* loadState succeeds.
Connected == identityFile # None /\ pairingFile = identityFile

\* The statuses with which the service says it has no such registration.
NoSuchDevice == {401, 404, 410}

\* Slips: any failure is taken for that; none is.
Forgot_AnyFailure(status) == ~Success(status)
Forgot_Never(status)      == FALSE

\* serverForgotDevice.
Forgot(status) == status \in NoSuchDevice

\* The service knows an active registration, and denies any other.
Truthful(status, id) ==
  /\ Success(status) => registration[id] = "active"
  /\ status \in NoSuchDevice => registration[id] # "active"

Goto(p, where) == pc' = [pc EXCEPT ![p] = where]

\* A line says what became of something: of a full report, of a heartbeat, or, when the
\* run made neither, of nothing that was sent.
Sendings == {"full", "heartbeat"}
Line(says, of) == [says |-> says, of |-> of]
Lines == [says : Verdicts \cup {"none", "counting"}, of : Sendings \cup {"nothing"}]
Silent == Line("none", "nothing")

\* The process ends, and what it had loaded is gone.
Exit(p) == /\ Goto(p, "idle")
           /\ dev' = [dev EXCEPT ![p] = None]
           /\ told' = [told EXCEPT ![p] = Silent]

Fault(kind) ==
  /\ kind \in FaultKinds
  /\ faults < MaxFaults
  /\ faults' = faults + 1

Init ==
  /\ pc = [p \in Procs |-> "idle"]
  /\ dev = [p \in Procs |-> None]
  /\ identityFile = None /\ pairingFile = None
  /\ registration = [i \in Ids |-> "none"]
  /\ created = {} /\ signedOff = {} /\ dropped = {}
  /\ told = [p \in Procs |-> Silent]
  /\ faults = 0

------------------------------------------------------------------------------
(* pair                                                                     *)

\* Slip: what was loaded is not returned.
SavedIdentity_Unread == None

SavedIdentity == identityFile

\* loadOrCreateIdentity: the stored identity, or a new one that must be saved.
Pair(p) ==
  /\ pc[p] = "idle" /\ p \in Shells
  /\ \/ /\ identityFile # None
        /\ dev' = [dev EXCEPT ![p] = SavedIdentity]
        /\ Goto(p, "request")
        /\ UNCHANGED created
     \/ /\ identityFile = None
        /\ \E i \in Ids \ created :
             dev' = [dev EXCEPT ![p] = i] /\ created' = created \cup {i}
        /\ Goto(p, "create")
  /\ UNCHANGED <<files, registration, signedOff, dropped, told, faults>>

\* Device.Save replaces the file with one rename.
Create(p) ==
  /\ pc[p] = "create"
  /\ identityFile' = dev[p]
  /\ Goto(p, "request")
  /\ UNCHANGED <<dev, pairingFile, registration, history, told, faults>>

Request(p, status) ==
  /\ pc[p] = "request"
  /\ IF Success(status) THEN Goto(p, "listen") /\ UNCHANGED <<dev, told>>
                        ELSE Exit(p)
  /\ UNCHANGED <<files, registration, history, faults>>

\* The first callback decides: one with the expected state and a code goes on, any
\* other one ends the pairing.
Callback(p) ==
  /\ pc[p] = "listen"
  /\ \/ Goto(p, "exchange") /\ UNCHANGED <<dev, told>>
     \/ Exit(p)
  /\ UNCHANGED <<files, registration, history, faults>>

\* The service registers the identity unless it has revoked it before.
Register(i) == registration' = [registration EXCEPT ![i] = "active"]

\* Slip: an answer is an answer.
Accepted_Any(status) == status # 0

\* postJSON returns no error.
Accepted(status) == Success(status)

Exchange(p, status) ==
  /\ pc[p] = "exchange"
  /\ \/ /\ Success(status) /\ registration[dev[p]] # "revoked"
        /\ Register(dev[p])
        /\ UNCHANGED faults
     \/ /\ ~Success(status)
        /\ UNCHANGED <<registration, faults>>
     \/ /\ status = 0 /\ Fault("answer") /\ registration[dev[p]] # "revoked"
        /\ Register(dev[p])
  /\ IF Accepted(status) THEN Goto(p, "truncate") /\ UNCHANGED <<dev, told>>
                         ELSE Exit(p)
  /\ UNCHANGED <<files, history>>

\* os.WriteFile empties the pairing file before it writes it.
Truncate(p) ==
  /\ pc[p] = "truncate"
  /\ pairingFile' = Torn
  /\ Goto(p, "write")
  /\ UNCHANGED <<dev, identityFile, registration, history, told, faults>>

Write(p) ==
  /\ pc[p] = "write"
  /\ pairingFile' = dev[p]
  /\ Exit(p)
  /\ UNCHANGED <<identityFile, registration, history, faults>>

------------------------------------------------------------------------------
(* disconnect                                                               *)

\* Slip: only this computer is cleaned up.
Disconnect_LocalOnly(p) ==
  /\ pc[p] = "idle" /\ p \in Shells
  /\ dev' = [dev EXCEPT ![p] = None]
  /\ Goto(p, "unpair")
  /\ UNCHANGED <<files, registration, history, told, faults>>

\* Without a readable pairing there is nothing to revoke.
Disconnect(p) ==
  /\ pc[p] = "idle" /\ p \in Shells
  /\ IF Connected THEN dev' = [dev EXCEPT ![p] = identityFile] /\ Goto(p, "challenge")
                  ELSE dev' = [dev EXCEPT ![p] = None] /\ Goto(p, "unpair")
  /\ UNCHANGED <<files, registration, history, told, faults>>

\* Where a request of the handshake leads to: on, to the clean-up, or out.
Proceed(p, status, next) ==
  IF Success(status) THEN Goto(p, next) /\ UNCHANGED <<dev, told>>
  ELSE IF Forgot(status) THEN Goto(p, "unpair") /\ UNCHANGED <<dev, told>>
  ELSE Exit(p)

Challenge(p, status) ==
  /\ pc[p] = "challenge"
  /\ Truthful(status, dev[p])
  /\ Proceed(p, status, "revoke")
  /\ UNCHANGED <<files, registration, history, faults>>

Revoked(i) ==
  /\ registration' = [registration EXCEPT ![i] = "revoked"]
  /\ signedOff' = signedOff \cup {i}

Revoke(p, status) ==
  /\ pc[p] = "revoke"
  /\ Truthful(status, dev[p])
  /\ \/ /\ Success(status)
        /\ Revoked(dev[p])
        /\ UNCHANGED faults
     \/ /\ ~Success(status)
        /\ UNCHANGED <<registration, signedOff, faults>>
     \/ /\ status = 0 /\ Fault("answer") /\ registration[dev[p]] = "active"
        /\ Revoked(dev[p])
  /\ Proceed(p, status, "unpair")
  /\ UNCHANGED <<files, created, dropped>>

\* removeLocalPairing: two best-effort removals.
Unpair(p) ==
  /\ pc[p] = "unpair"
  /\ \/ pairingFile' = None /\ UNCHANGED faults
     \/ Fault("error") /\ UNCHANGED pairingFile
  /\ Goto(p, "forget")
  /\ UNCHANGED <<dev, identityFile, registration, history, told>>

\* Slip: only the pairing is removed.
KeptIdentity_Always == identityFile

KeptIdentity == None

Forget(p) ==
  /\ pc[p] = "forget"
  /\ \/ identityFile' = KeptIdentity /\ UNCHANGED faults
     \/ Fault("error") /\ UNCHANGED identityFile
  /\ dropped' = dropped \cup ({identityFile} \ {identityFile', None})
  /\ Exit(p)
  /\ UNCHANGED <<pairingFile, registration, created, signedOff>>

------------------------------------------------------------------------------
(* report and run                                                           *)

\* configuredRunner: the files are read once, when the process starts.
Configure(p) ==
  /\ pc[p] = "idle" /\ p \in Reporters
  /\ Connected
  /\ dev' = [dev EXCEPT ![p] = identityFile]
  /\ Goto(p, "report")
  /\ UNCHANGED <<files, registration, history, told, faults>>

\* A report or heartbeat is called uploaded only under an identity the service knows; a
\* run that sent nothing may say uploaded too, under any identity.  `run` goes on with
\* the next one, `report` is done.  Computer says what happens, and fails, in between.
Report(p) ==
  /\ pc[p] = "report"
  /\ \/ /\ \E line \in Lines :
             /\ told' = [told EXCEPT ![p] = line]
             /\ line.says = "uploaded" /\ line.of \in Sendings
                  => registration[dev[p]] = "active"
        /\ UNCHANGED <<pc, dev>>
     \/ Exit(p)
     \/ UNCHANGED <<pc, dev, told>>
  /\ UNCHANGED faults \/ Fault("error") \/ Fault("answer")
  /\ UNCHANGED <<files, registration, history>>

------------------------------------------------------------------------------
(* What else may happen.                                                    *)

\* A file cannot be written: a pairing file that was emptied stays empty.
WriteFails(p) ==
  /\ pc[p] \in {"create", "truncate", "write"}
  /\ Fault("error")
  /\ Exit(p)
  /\ UNCHANGED <<files, registration, history>>

Crash(p) ==
  /\ pc[p] # "idle"
  /\ Fault("crash")
  /\ Exit(p)
  /\ UNCHANGED <<files, registration, history>>

\* Someone deactivates the device in the workspace.
Deactivate(i) ==
  /\ registration[i] = "active"
  /\ registration' = [registration EXCEPT ![i] = "revoked"]
  /\ UNCHANGED <<pc, dev, files, history, told, faults>>

------------------------------------------------------------------------------
Asked(p) == \E status \in Answers :
  Request(p, status) \/ Exchange(p, status) \/ Challenge(p, status) \/ Revoke(p, status)

\* What a command does next without anybody's help.
Step(p) ==
  Create(p) \/ Asked(p) \/ Truncate(p) \/ Write(p) \/ Unpair(p) \/ Forget(p) \/ Report(p)

Next ==
  \/ \E p \in Procs :
       \/ Step(p) \/ Callback(p) \/ WriteFails(p) \/ Crash(p)
       \/ Pair(p) \/ Disconnect(p) \/ Configure(p)
  \/ \E i \in Ids : Deactivate(i)

Spec == Init /\ [][Next]_vars

\* Every request returns, at the latest with the client's own timeout; nothing says
\* that the browser ever calls back.
LiveSpec == Spec /\ \A p \in Procs : WF_vars(Step(p))

=============================================================================
