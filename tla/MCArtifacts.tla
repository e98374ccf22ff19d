------------------------------ MODULE MCArtifacts ------------------------------
(***************************************************************************)
(* A small instance of Artifacts: a user and the worker upload the same      *)
(* content, again under the same keys.                                       *)
(***************************************************************************)
EXTENDS Artifacts

MCRequests ==
  {[by |-> "user", key |-> "k1", phases |-> {}, content |-> "c1", size |-> 1],
   [by |-> "worker", key |-> "k2", phases |-> {"RUNNING"}, content |-> "c1", size |-> 1]}

Ended == [NoCall EXCEPT !.at = "ENDED"]

\* Two uploads, in a world that does not change.
TwoUploads ==
  /\ up = [u \in Uploads |-> NoCall] /\ acked = {}
  /\ sessions = << >> /\ records = << >> /\ arts = << >> /\ refs = {} /\ blobs = << >>
  /\ counter = [reserved |-> 0, committed |-> 0]
  /\ changes = MaxChanges /\ crashes = MaxCrashes

\* The first upload was refused before it left a row: the second one is alone.
OneUpload ==
  /\ up = <<Ended, NoCall>> /\ acked = {}
  /\ sessions = << >> /\ records = << >> /\ arts = << >> /\ refs = {} /\ blobs = << >>
  /\ counter = [reserved |-> 0, committed |-> 0]
  /\ changes = 0 /\ crashes = 0

\* The first upload was answered: the second one meets its artifact or replays it.
SecondUpload(r) ==
  /\ up = <<Ended, NoCall>> /\ acked = {<<r.key, 1>>}
  /\ sessions = <<[state |-> "COMMITTED", size |-> 1, age |-> 0]>>
  /\ records = [k \in {r.key} |->
                  [answer |-> <<"created", 1>>, grant |-> 1, hash |-> "c1", upload |-> 1]]
  /\ arts = <<[content |-> "c1", size |-> 1]>>
  /\ refs = IF r.by = "worker" THEN {<<1, 1>>} ELSE {}
  /\ blobs = <<[age |-> 0, content |-> "c1"]>>
  /\ counter = [reserved |-> 0, committed |-> 1]
  /\ changes = 0 /\ crashes = 0

MCInit ==
  /\ TwoUploads \/ OneUpload \/ \E r \in Requests : SecondUpload(r)
  /\ staging = << >> /\ handles = {} /\ gc = NoPass
  /\ scope = [member |-> TRUE, phase |-> "RUNNING", grant |-> 1]

MCSpec == MCInit /\ [][StoreNext]_storeVars /\ Fairness
=============================================================================
