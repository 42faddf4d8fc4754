-------------------------- MODULE ConnectionProofs --------------------------
(***************************************************************************)
(* Connection for any number of processes, identities and faults: several  *)
(* shells may connect and disconnect at the same time.                     *)
(***************************************************************************)
EXTENDS ConnectionProperties, TLAPS

\* A step keeps every variable at a value of its kind.
LEMMA TypeStep == TypeOK /\ [Next]_vars => TypeOK'
<1> USE NotIdentities DEF TypeOK, Procs, Pairing, Disconnecting
<1> SUFFICES ASSUME TypeOK, [Next]_vars
             PROVE  TypeOK'
  OBVIOUS
<1>0. Silent \in Lines
  BY DEF Silent, Line, Lines
<1> USE <1>0 DEF Goto, Exit, Fault, files, history
<1>1. ASSUME NEW p \in Procs, Pair(p) \/ Create(p)  PROVE TypeOK'
  BY <1>1 DEF Pair, Create, SavedIdentity
<1>2. ASSUME NEW p \in Procs, NEW status \in Answers, Request(p, status)  PROVE TypeOK'
  BY <1>2 DEF Request
<1>3. ASSUME NEW p \in Procs, NEW status \in Answers, Exchange(p, status)  PROVE TypeOK'
  BY <1>3 DEF Exchange, Register
<1>4. ASSUME NEW p \in Procs, NEW status \in Answers, Challenge(p, status)  PROVE TypeOK'
  BY <1>4 DEF Challenge, Proceed
<1>5. ASSUME NEW p \in Procs, NEW status \in Answers, Revoke(p, status)  PROVE TypeOK'
  BY <1>5 DEF Revoke, Proceed, Revoked
<1>6. ASSUME NEW p \in Procs, Callback(p) \/ Truncate(p) \/ Write(p)  PROVE TypeOK'
  BY <1>6 DEF Callback, Truncate, Write
<1>7. ASSUME NEW p \in Procs, Disconnect(p) \/ Unpair(p)  PROVE TypeOK'
  BY <1>7 DEF Disconnect, Unpair, Connected
<1>8. ASSUME NEW p \in Procs, Forget(p)  PROVE TypeOK'
  BY <1>8 DEF Forget, KeptIdentity
<1>9. ASSUME NEW p \in Procs, Configure(p)  PROVE TypeOK'
  BY <1>9 DEF Configure, Connected
<1>10. ASSUME NEW p \in Procs, Report(p)  PROVE TypeOK'
  <2>1. faults' \in Nat
    BY <1>10 DEF Report
  <2>2. told' \in [Procs -> Lines]
    BY <1>10 DEF Report
  <2> QED
    BY <1>10, <2>1, <2>2 DEF Report
<1>11. ASSUME NEW p \in Procs, WriteFails(p) \/ Crash(p)  PROVE TypeOK'
  BY <1>11 DEF WriteFails, Crash
<1>12. ASSUME NEW i \in Ids, Deactivate(i)  PROVE TypeOK'
  BY <1>12 DEF Deactivate
<1>13. CASE UNCHANGED vars
  BY <1>13 DEF vars
<1> QED
  BY <1>1, <1>2, <1>3, <1>4, <1>5, <1>6, <1>7, <1>8, <1>9, <1>10, <1>11, <1>12, <1>13
  DEF Next, Step, Asked

\* Every variable keeps a value of its kind; what is stored was generated here.
THEOREM TypeCorrect == Spec => []TypeOK
<1>1. Init => TypeOK
  BY NotIdentities, BoundIsNatural
  DEF Init, TypeOK, Procs, Pairing, Disconnecting, Lines, Silent, Line
<1> QED
  BY <1>1, TypeStep, PTL DEF Spec

------------------------------------------------------------------------------
\* What is stored or loaded as paired has been registered, and what disconnect found
\* registered and is about to delete has been revoked since.
Approved(i) == registration[i] # "none"

Backed ==
  /\ pairingFile \in Ids => Approved(pairingFile)
  /\ \A p \in Procs : pc[p] \in {"truncate", "write", "challenge", "revoke", "report"}
                        => Approved(dev[p])
  /\ \A p \in Shells : pc[p] \in {"unpair", "forget"} /\ dev[p] # None
                         => registration[dev[p]] = "revoked"

\* The service never forgets that it knew an identity, and a revoked one stays so.
LEMMA RegistrationGrows ==
  ASSUME TypeOK, [Next]_vars, NEW i \in Ids
  PROVE  /\ Approved(i) => Approved(i)'
         /\ registration[i] = "revoked" => registration'[i] = "revoked"
<1> USE DEF TypeOK, Approved, files, history
<1>1. ASSUME NEW p \in Procs, NEW status \in Answers,
             Exchange(p, status) \/ Revoke(p, status)
      PROVE  /\ Approved(i) => Approved(i)'
             /\ registration[i] = "revoked" => registration'[i] = "revoked"
  BY <1>1 DEF Exchange, Register, Revoke, Revoked
<1>2. ASSUME NEW j \in Ids, Deactivate(j)
      PROVE  /\ Approved(i) => Approved(i)'
             /\ registration[i] = "revoked" => registration'[i] = "revoked"
  BY <1>2 DEF Deactivate
<1>3. ASSUME NEW p \in Procs, NEW status \in Answers,
             \/ Pair(p) \/ Create(p) \/ Request(p, status) \/ Callback(p) \/ Truncate(p)
             \/ Write(p) \/ Disconnect(p) \/ Challenge(p, status) \/ Unpair(p) \/ Forget(p)
             \/ Configure(p) \/ Report(p) \/ WriteFails(p) \/ Crash(p)
      PROVE  registration' = registration
  BY <1>3 DEF Pair, Create, Request, Callback, Truncate, Write, Disconnect, Challenge,
              Unpair, Forget, Configure, Report, WriteFails, Crash
<1>4. ASSUME NEW p \in Procs,
             \/ Pair(p) \/ Create(p) \/ Callback(p) \/ Truncate(p)
             \/ Write(p) \/ Disconnect(p) \/ Unpair(p) \/ Forget(p)
             \/ Configure(p) \/ Report(p) \/ WriteFails(p) \/ Crash(p)
      PROVE  registration' = registration
  BY <1>4 DEF Pair, Create, Callback, Truncate, Write, Disconnect,
              Unpair, Forget, Configure, Report, WriteFails, Crash
<1> QED
  BY <1>1, <1>2, <1>3, <1>4 DEF Next, Step, Asked, vars

\* The stored pairing, and the one a command works on, was approved.
LEMMA PairingIsBacked == Spec => []Backed
<1>1. Init => Backed
  BY NotIdentities DEF Init, Backed, Procs
<1>2. TypeOK /\ Backed /\ [Next]_vars => Backed'
  <2> SUFFICES ASSUME TypeOK, Backed, [Next]_vars
               PROVE  Backed'
    OBVIOUS
  <2>1. \A i \in Ids : /\ Approved(i) => Approved(i)'
                       /\ registration[i] = "revoked" => registration'[i] = "revoked"
    BY RegistrationGrows
  <2> USE NotIdentities DEF TypeOK, Backed, Procs, Pairing, Disconnecting, Goto, Exit, files,
                            history
  <2> HIDE DEF Approved
  <2>2. ASSUME NEW p \in Procs, Pair(p) \/ Create(p) \/ Callback(p)  PROVE Backed'
    BY <2>1, <2>2 DEF Pair, Create, Callback
  <2>3. ASSUME NEW p \in Procs, NEW status \in Answers, Request(p, status)  PROVE Backed'
    BY <2>1, <2>3 DEF Request
  <2>4. ASSUME NEW p \in Procs, NEW status \in Answers, Exchange(p, status)  PROVE Backed'
    <3>1. pc'[p] = "truncate" => Approved(dev[p])'
      BY <2>4 DEF Exchange, Register, Accepted, Approved, Success
    <3> QED
      BY <2>1, <2>4, <3>1 DEF Exchange
  <2>5. ASSUME NEW p \in Procs, NEW status \in Answers, Challenge(p, status)  PROVE Backed'
    <3>1. pc'[p] = "unpair" => registration[dev[p]] = "revoked"
      BY <2>5 DEF Challenge, Proceed, Truthful, Forgot, Approved
    <3> QED
      BY <2>1, <2>5, <3>1 DEF Challenge, Proceed
  <2>6. ASSUME NEW p \in Procs, NEW status \in Answers, Revoke(p, status)  PROVE Backed'
    <3>1. pc'[p] = "unpair" => registration'[dev[p]] = "revoked"
      BY <2>6 DEF Revoke, Revoked, Proceed, Truthful, Forgot, Approved
    <3> QED
      BY <2>1, <2>6, <3>1 DEF Revoke, Proceed
  <2>7. ASSUME NEW p \in Procs, Truncate(p) \/ Write(p)  PROVE Backed'
    BY <2>1, <2>7 DEF Truncate, Write
  <2>8. ASSUME NEW p \in Procs, Disconnect(p) \/ Unpair(p) \/ Forget(p)  PROVE Backed'
    BY <2>1, <2>8 DEF Disconnect, Unpair, Forget, Connected
  <2>9. ASSUME NEW p \in Procs, Configure(p) \/ Report(p)  PROVE Backed'
    BY <2>1, <2>9, OneCommandEach DEF Configure, Report, Connected
  <2>10. ASSUME NEW p \in Procs, WriteFails(p) \/ Crash(p)  PROVE Backed'
    BY <2>1, <2>10 DEF WriteFails, Crash
  <2>11. ASSUME NEW i \in Ids, Deactivate(i)  PROVE Backed'
    BY <2>1, <2>11 DEF Deactivate
  <2>12. CASE UNCHANGED vars
    BY <2>12 DEF vars, Approved
  <2> QED
    BY <2>2, <2>3, <2>4, <2>5, <2>6, <2>7, <2>8, <2>9, <2>10, <2>11, <2>12
    DEF Next, Step, Asked
<1> QED
  BY <1>1, <1>2, TypeCorrect, PTL DEF Spec

\* A connected computer, and every process that reports, has an identity that the
\* service registered.
THEOREM PairingIsApproved == Spec => []PairedMeansRegistered
<1>1. TypeOK /\ Backed => PairedMeansRegistered
  BY NotIdentities DEF TypeOK, Backed, Approved, PairedMeansRegistered, Connected
<1> QED
  BY <1>1, TypeCorrect, PairingIsBacked, PTL

\* Disconnect gives up the local pairing it wanted to revoke only when the service
\* has given it up too, however many processes connect and disconnect.
THEOREM RemovalIsSafe == Spec => []RevokedBeforeRemoval
<1>1. Backed => RevokedBeforeRemoval
  BY DEF Backed, RevokedBeforeRemoval
<1> QED
  BY <1>1, PairingIsBacked, PTL

------------------------------------------------------------------------------
(* One shell at a time.                                                     *)

\* Commands are given one after another: no two processes connect or disconnect.
OneShell == \A p, q \in Shells : p = q

\* Reporters only report, and the history is about identities generated here.
Roles ==
  /\ \A p \in Reporters : pc[p] \in {"idle", "report"}
  /\ signedOff \subseteq created /\ dropped \subseteq created

\* The identity a command works on is the stored one, the pairing is stored with it
\* as soon as it is registered, and it is the only one that is.
Tidy ==
  /\ \A i \in Ids : registration[i] = "active" => i = identityFile
  /\ identityFile \notin dropped
  /\ identityFile \in signedOff => \E p \in Shells : pc[p] \in {"unpair", "forget"}
  /\ \A p \in Shells :
       /\ pc[p] = "create" => /\ identityFile = None
                              /\ dev[p] \notin signedOff \cup dropped
       /\ pc[p] \in {"request", "listen", "exchange", "truncate", "write",
                     "challenge", "revoke"} => dev[p] = identityFile
       /\ pc[p] \in {"unpair", "forget"} =>
            identityFile = None \/ registration[identityFile] # "active"
       /\ pc[p] \notin {"truncate", "write"} =>
            \/ identityFile = None \/ registration[identityFile] # "active"
            \/ pairingFile = identityFile

TidyWithoutFaults == faults = 0 => Tidy

\* A reporter only reports, and only identities that were created are signed off or dropped.
LEMMA RolesAreKept == Spec => []Roles
<1>1. Init => Roles
  BY DEF Init, Roles, Procs
<1>2. TypeOK /\ Roles /\ [Next]_vars => Roles'
  <2> SUFFICES ASSUME TypeOK, Roles, [Next]_vars
               PROVE  Roles'
    OBVIOUS
  <2> USE NotIdentities, OneCommandEach
      DEF TypeOK, Roles, Procs, Pairing, Disconnecting, Goto, Exit, files, history
  <2>1. ASSUME NEW p \in Procs, Pair(p) \/ Create(p) \/ Callback(p) \/ Truncate(p) \/ Write(p)
        PROVE  Roles'
    BY <2>1 DEF Pair, Create, Callback, Truncate, Write
  <2>2. ASSUME NEW p \in Procs, NEW status \in Answers,
               Request(p, status) \/ Exchange(p, status) \/ Challenge(p, status)
        PROVE  Roles'
    BY <2>2 DEF Request, Exchange, Challenge, Proceed
  <2>3. ASSUME NEW p \in Procs, NEW status \in Answers, Revoke(p, status)  PROVE Roles'
    BY <2>3 DEF Revoke, Revoked, Proceed
  <2>4. ASSUME NEW p \in Procs, Disconnect(p) \/ Unpair(p) \/ Forget(p)  PROVE Roles'
    BY <2>4 DEF Disconnect, Unpair, Forget
  <2>5. ASSUME NEW p \in Procs, Configure(p) \/ Report(p)  PROVE Roles'
    BY <2>5 DEF Configure, Report
  <2>6. ASSUME NEW p \in Procs, WriteFails(p) \/ Crash(p)  PROVE Roles'
    BY <2>6 DEF WriteFails, Crash
  <2>7. ASSUME NEW i \in Ids, Deactivate(i)  PROVE Roles'
    BY <2>7 DEF Deactivate
  <2>8. CASE UNCHANGED vars
    BY <2>8 DEF vars
  <2> QED
    BY <2>1, <2>2, <2>3, <2>4, <2>5, <2>6, <2>7, <2>8 DEF Next, Step, Asked
<1> QED
  BY <1>1, <1>2, TypeCorrect, PTL DEF Spec

\* No step takes back a fault.
LEMMA FaultsAreCounted ==
  ASSUME TypeOK, [Next]_vars
  PROVE  faults' \in {faults, faults + 1}
<1>1. faults \in Nat
  BY DEF TypeOK
<1> USE <1>1 DEF Fault, files, history, vars
<1>2. ASSUME NEW p \in Procs,
             Pair(p) \/ Create(p) \/ Callback(p) \/ Truncate(p) \/ Write(p) \/ Disconnect(p)
      PROVE  faults' = faults
  BY <1>2 DEF Pair, Create, Callback, Truncate, Write, Disconnect
<1>3. ASSUME NEW p \in Procs,
             Unpair(p) \/ Forget(p) \/ Configure(p) \/ Report(p) \/ WriteFails(p) \/ Crash(p)
      PROVE  faults' \in {faults, faults + 1}
  BY <1>3 DEF Unpair, Forget, Configure, Report, WriteFails, Crash
<1>4. ASSUME NEW p \in Procs, NEW status \in Answers,
             \/ Request(p, status) \/ Exchange(p, status)
             \/ Challenge(p, status) \/ Revoke(p, status)
      PROVE  faults' \in {faults, faults + 1}
  BY <1>4 DEF Request, Exchange, Challenge, Revoke
<1>5. ASSUME NEW i \in Ids, Deactivate(i)  PROVE faults' = faults
  BY <1>5 DEF Deactivate
<1> QED
  BY <1>2, <1>3, <1>4, <1>5 DEF Next, Step, Asked

\* One shell keeps the files tidy as long as nothing fails.
LEMMA TidyStep ==
  ASSUME OneShell, TypeOK, Roles, TidyWithoutFaults, [Next]_vars
  PROVE  TidyWithoutFaults'
<1> SUFFICES ASSUME faults' = 0  PROVE Tidy'
  BY DEF TidyWithoutFaults
<1>1. faults = 0 /\ Tidy
  BY FaultsAreCounted DEF TidyWithoutFaults, TypeOK
<1>2. ASSUME NEW kind, Fault(kind)  PROVE FALSE
  BY <1>1, <1>2 DEF Fault
<1> HIDE DEF Fault
<1> USE NotIdentities, OneCommandEach
    DEF TypeOK, Roles, Tidy, OneShell, Procs, Pairing, Disconnecting, Goto, Exit, files, history
<1>3. ASSUME NEW p \in Procs, Pair(p)  PROVE Tidy'
  BY <1>1, <1>3 DEF Pair, SavedIdentity
<1>4. ASSUME NEW p \in Procs, Create(p)  PROVE Tidy'
  BY <1>1, <1>4 DEF Create
<1>5. ASSUME NEW p \in Procs, NEW status \in Answers, Request(p, status)  PROVE Tidy'
  BY <1>1, <1>5 DEF Request
<1>6. ASSUME NEW p \in Procs, Callback(p)  PROVE Tidy'
  BY <1>1, <1>6 DEF Callback
<1>7. ASSUME NEW p \in Procs, NEW status \in Answers, Exchange(p, status)  PROVE Tidy'
  BY <1>1, <1>2, <1>7 DEF Exchange, Register, Accepted
<1>8. ASSUME NEW p \in Procs, Truncate(p) \/ Write(p)  PROVE Tidy'
  BY <1>1, <1>8 DEF Truncate, Write
<1>9. ASSUME NEW p \in Procs, Disconnect(p)  PROVE Tidy'
  BY <1>1, <1>9 DEF Disconnect, Connected
<1>10. ASSUME NEW p \in Procs, NEW status \in Answers, Challenge(p, status)  PROVE Tidy'
  BY <1>1, <1>10 DEF Challenge, Proceed, Truthful, Forgot
<1>11. ASSUME NEW p \in Procs, NEW status \in Answers, Revoke(p, status)  PROVE Tidy'
  BY <1>1, <1>2, <1>11 DEF Revoke, Revoked, Proceed, Truthful, Forgot
<1>12. ASSUME NEW p \in Procs, Unpair(p)  PROVE Tidy'
  BY <1>1, <1>2, <1>12 DEF Unpair
<1>13. ASSUME NEW p \in Procs, Forget(p)  PROVE Tidy'
  BY <1>1, <1>2, <1>13 DEF Forget, KeptIdentity
<1>14. ASSUME NEW p \in Procs, Configure(p) \/ Report(p)  PROVE Tidy'
  BY <1>1, <1>14 DEF Configure, Report
<1>15. ASSUME NEW p \in Procs, WriteFails(p) \/ Crash(p)  PROVE FALSE
  BY <1>2, <1>15 DEF WriteFails, Crash
<1>16. ASSUME NEW i \in Ids, Deactivate(i)  PROVE Tidy'
  BY <1>1, <1>16 DEF Deactivate
<1>17. CASE UNCHANGED vars
  BY <1>1, <1>17 DEF vars
<1> QED
  BY <1>3, <1>4, <1>5, <1>6, <1>7, <1>8, <1>9, <1>10, <1>11, <1>12, <1>13, <1>14, <1>15,
     <1>16, <1>17
  DEF Next, Step, Asked

\* The commands of one shell leave the files tidy.
LEMMA CommandsAreTidy ==
  ASSUME OneShell
  PROVE  Spec => []TidyWithoutFaults
<1>1. Init => TidyWithoutFaults
  BY NotIdentities DEF Init, TidyWithoutFaults, Tidy, Procs
<1>2. TypeOK /\ Roles /\ TidyWithoutFaults /\ [Next]_vars => TidyWithoutFaults'
  BY TidyStep
<1> QED
  BY <1>1, <1>2, TypeCorrect, RolesAreKept, PTL DEF Spec

\* While commands are given one after another and nothing fails, what disconnect
\* deletes is signed off.  A second shell makes it false: one that disconnects between
\* the exchange and the write of a pairing finds no pairing to revoke.
THEOREM DisconnectRevokes ==
  ASSUME OneShell
  PROVE  Spec => []CleanDisconnectRevokes
<1>1. TypeOK /\ Roles /\ TidyWithoutFaults => CleanDisconnectRevokes
  BY DEF TypeOK, Roles, TidyWithoutFaults, Tidy, CleanDisconnectRevokes
<1> QED
  BY <1>1, TypeCorrect, RolesAreKept, CommandsAreTidy, PTL

\* Under the same conditions, the pairing that follows a disconnect uses a new key.
THEOREM NewPairingNewKey ==
  ASSUME OneShell
  PROVE  Spec => []FreshKeyAfterDisconnect
<1>1. TypeOK /\ Roles /\ TidyWithoutFaults => FreshKeyAfterDisconnect
  <2> SUFFICES ASSUME TypeOK, Roles, TidyWithoutFaults, faults = 0, NEW p \in Shells,
                      pc[p] \in Pairing
               PROVE  dev[p] \notin signedOff
    BY DEF FreshKeyAfterDisconnect
  <2>1. Tidy
    BY DEF TidyWithoutFaults
  <2>2. CASE pc[p] = "create"
    BY <2>1, <2>2 DEF Tidy
  <2>3. CASE pc[p] # "create"
    <3>1. dev[p] = identityFile
      BY <2>1, <2>3 DEF Tidy, Pairing
    <3>2. \A q \in Shells : pc[q] \notin {"unpair", "forget"}
      BY DEF OneShell, Pairing
    <3> QED
      BY <2>1, <3>1, <3>2 DEF Tidy
  <2> QED
    BY <2>2, <2>3
<1> QED
  BY <1>1, TypeCorrect, RolesAreKept, CommandsAreTidy, PTL

=============================================================================
