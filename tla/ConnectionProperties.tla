------------------------ MODULE ConnectionProperties ------------------------
(***************************************************************************)
(* The properties of Connection.                                           *)
(***************************************************************************)
EXTENDS Connection

\* Every variable holds a value of its kind.
TypeOK ==
  /\ pc \in [Procs -> Pairing \cup Disconnecting \cup {"idle", "report"}]
  /\ dev \in [Procs -> created \cup {None}]
  /\ \A p \in Procs : pc[p] \in Pairing \cup {"challenge", "revoke", "report"}
                        => dev[p] \in created
  /\ identityFile \in created \cup {None}
  /\ pairingFile \in created \cup {None, Torn}
  /\ registration \in [Ids -> {"none", "active", "revoked"}]
  /\ created \subseteq Ids /\ signedOff \subseteq Ids /\ dropped \subseteq Ids
  /\ told \in [Procs -> Lines]
  /\ faults \in Nat

\* `connection` says "paired" only of an identity the service has registered, and
\* reports are sent only under such a one, whatever was interrupted: the pairing
\* is stored after the exchange.
PairedMeansRegistered ==
  /\ Connected => registration[identityFile] # "none"
  /\ \A p \in Procs : pc[p] = "report" => registration[dev[p]] # "none"

\* Having found a registration to revoke, disconnect deletes the local pairing only
\* when the service no longer has it: a transport failure keeps everything, so
\* that the user can try again.
RevokedBeforeRemoval ==
  \A p \in Shells : pc[p] \in {"unpair", "forget"} /\ dev[p] # None
                      => registration[dev[p]] # "active"

\* What disconnect deletes is no longer registered, unless something went wrong on
\* the way: no answer was lost, no write failed and no process died.
CleanDisconnectRevokes ==
  faults = 0 => \A i \in dropped : registration[i] # "active"

\* A pairing after a disconnect uses a fresh key, never the one the service revoked.
FreshKeyAfterDisconnect ==
  faults = 0 => \A p \in Shells : pc[p] \in Pairing => dev[p] \notin signedOff

\* Nobody is trapped as connected: when the user keeps trying to disconnect and the
\* service gives its answer now and then, the computer does not stay connected,
\* also when the answer to an earlier attempt was lost.
Definitive == {status \in Answers : Success(status) \/ status \in NoSuchDevice}

UserInsists ==
  \A p \in Shells :
    /\ SF_vars(Disconnect(p))
    /\ SF_vars(\E status \in Definitive : Challenge(p, status))
    /\ SF_vars(\E status \in Definitive : Revoke(p, status))
    /\ SF_vars(Callback(p))

NobodyIsTrapped == UserInsists => (Connected ~> ~Connected)

\* The listener "accepts only the expected callback/state, then closes within
\* minutes" (SPEC.md:232).
ListenerCloses == \A p \in Shells : Listening(p) ~> ~Listening(p)

=============================================================================
