-------------------------------- MODULE Turn --------------------------------
(***************************************************************************)
(* POST /v2/turn and POST /v2/admission (app/v2.py): an admitted client    *)
(* trades its grant (NodeTrust.issue_admission and verify_admission,       *)
(* app/trust.py) for a TURN credential signed with the newest secret that  *)
(* is active (TurnCredentialIssuer, app/turn.py).                          *)
(*                                                                         *)
(* The limiter of module Limiter is the one of /v2/turn.  /v2/admission    *)
(* has another one, and its crypto slots, whose refusals change nothing    *)
(* here.  The code reads time.monotonic for the limiter and time.time for  *)
(* the rest; they run alike here.  A client is its address and its key.    *)
(***************************************************************************)
EXTENDS Limiter

CONSTANTS
  Secret,        \* ids in config.turn_shared_secrets_json
  Legacy,        \* what is used when no secret is active: turn_shared_secret,
                 \* or the static servers
  Activates,     \* Activates[k]: activatesAt of secret k
  Expires,       \* Expires[k]: expiresAt of secret k
  TurnTTL,       \* config.turn_ttl_seconds
  AdmissionTTL,  \* config.admission_ttl_seconds
  MaxReading     \* bound: requests whose body is being read at a time

ASSUME TurnAssumption ==
  /\ Legacy \notin Secret
  /\ Activates \in [Secret -> Int] /\ Expires \in [Secret -> Int]
  /\ TurnTTL \in Nat \ {0} /\ AdmissionTTL \in Nat \ {0}
  /\ MaxReading \in Nat \ {0}

VARIABLES
  reading,  \* clients past the limiter whose request body is being read
  grant,    \* time left of a client's latest grant, -1 for none
  issued    \* the last credential: its secret and the end of its life

turnVars == <<reading, grant, issued>>

-----------------------------------------------------------------------------

Active == {k \in Secret : Activates[k] <= now /\ now <= Expires[k]}

(* Mutant: the secret that was activated first.                            *)
ChosenOldest(k) == k \in Active /\ \A j \in Active : Activates[k] <= Activates[j]

(* max(active): the last one activated, or the fallback.                   *)
Chosen(k) ==
  IF Active = {} THEN k = Legacy
  ELSE k \in Active /\ \A j \in Active : Activates[j] <= Activates[k]

(* The credential issue hands out.                                         *)
Credential(k) == [secret |-> k, end |-> now + TurnTTL]

(* issue_admission.                                                        *)
Granted(c) == [grant EXCEPT ![c] = AdmissionTTL]

(* verify_admission: a grant of this node for the client's key, in time.   *)
GrantValid(c) == grant[c] >= 0

-----------------------------------------------------------------------------

TurnInit ==
  /\ Init
  /\ reading = {}
  /\ grant = [c \in Client |-> -1]
  /\ issued = {}

(* POST /v2/admission issues a grant.                                      *)
Admission(c) ==
  /\ grant' = Granted(c)
  /\ UNCHANGED <<vars, reading, issued>>

(* POST /v2/turn, up to the body: it is read after the limiter was asked.  *)
TurnRequest(c) ==
  /\ c \notin reading /\ Cardinality(reading) < MaxReading
  /\ \/ (ClientRefuses(c) \/ GlobalRefuses(c)) /\ UNCHANGED reading
     \/ Admit(c) /\ reading' = reading \cup {c}
  /\ UNCHANGED <<grant, issued>>

(* A malformed body, a grant that is not valid, or no secret at all.       *)
TurnRefused(c) ==
  /\ c \in reading
  /\ reading' = reading \ {c}
  /\ UNCHANGED <<vars, grant, issued>>

TurnIssued(c) ==
  /\ c \in reading
  /\ GrantValid(c)
  /\ \E k \in Secret \cup {Legacy} : Chosen(k) /\ issued' = {Credential(k)}
  /\ reading' = reading \ {c}
  /\ UNCHANGED <<vars, grant>>

TurnTick ==
  /\ Tick
  /\ grant' = [c \in Client |-> IF grant[c] >= 0 THEN grant[c] - 1 ELSE -1]
  /\ UNCHANGED <<reading, issued>>

TurnNext ==
  \/ \E c \in Client : Admission(c) \/ TurnRequest(c) \/ TurnRefused(c) \/ TurnIssued(c)
  \/ TurnTick
  \/ Observe /\ UNCHANGED turnVars

TurnSpec == TurnInit /\ [][TurnNext]_<<vars, turnVars>>

-----------------------------------------------------------------------------

(* Secret j takes over from k: it is activated later, early enough for the *)
(* credentials of k to end with k, and stays at least as long.             *)
Succeeds(j, k) ==
  /\ Activates[j] > Activates[k]
  /\ Activates[j] + TurnTTL <= Expires[k] + 1
  /\ Expires[j] >= Expires[k]

(* README: "overlapping" secrets "for rotation".  When every secret but    *)
(* the last has a successor, a credential never outlives the secret it is  *)
(* signed with, whatever other secrets are active, so a TURN server that   *)
(* knows the active secrets accepts it to its end.                         *)
CredentialsCovered ==
  \A x \in issued :
    (\E j \in Secret : x.secret \in Secret /\ Succeeds(j, x.secret))
      => x.end <= Expires[x.secret]

=============================================================================
