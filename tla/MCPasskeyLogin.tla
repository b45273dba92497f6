---------------------------- MODULE MCPasskeyLogin ----------------------------
(* Logins with a passkey that one browser has registered before: the       *)
(* states that follow a registration whose finish request was answered     *)
(* with 200, so that two login challenges are enough to make logins race.  *)
EXTENDS PasskeyCeremony, TLC

CONSTANTS Owner, Home, Passkey, Spent

InitRegistered ==
  /\ now = 0
  /\ users = {Owner}
  /\ jar = [b \in Browsers |-> IF b = Home THEN Owner ELSE None]
  /\ challenges = {}
  /\ issued = {Spent}
  /\ credential = [k \in Credentials |->
       [user |-> IF k = Passkey THEN Owner ELSE None, signCount |-> 0]]
  /\ account = [k \in Credentials |->
       IF k = Passkey THEN [user |-> Owner, deployed |-> TRUE]
                      ELSE [user |-> None, deployed |-> FALSE]]
  /\ chain = [k \in Credentials |-> IF k = Passkey THEN "deployed" ELSE "absent"]
  /\ offers = {}
  /\ responses = {[purpose |-> "registration", challenge |-> Spent,
                   credential |-> Passkey, counter |-> 0, browser |-> Home]}
  /\ handler = [h \in Handlers |-> Idle]
  /\ wins = [c \in Challenges |-> IF c = Spent THEN 1 ELSE 0]
  /\ acked = {Passkey}

LoginSpec == InitRegistered /\ [][Next]_vars

FairLoginSpec == LoginSpec /\ \A h \in Handlers : WF_vars(Progress(h))

\* The empty database, but for one challenge that was issued and lapsed.
InitLapsed ==
  /\ now = 0
  /\ users = {}
  /\ jar = [b \in Browsers |-> None]
  /\ challenges = {}
  /\ issued = {Spent}
  /\ credential = [k \in Credentials |-> [user |-> None, signCount |-> 0]]
  /\ account = [k \in Credentials |-> [user |-> None, deployed |-> FALSE]]
  /\ chain = [k \in Credentials |-> "absent"]
  /\ offers = {}
  /\ responses = {}
  /\ handler = [h \in Handlers |-> Idle]
  /\ wins = [c \in Challenges |-> 0]
  /\ acked = {}

\* Either beginning leaves two challenges to issue.
FairSerialSpec ==
  /\ InitRegistered \/ InitLapsed
  /\ [][Next]_vars
  /\ \A h \in Handlers : WF_vars(Progress(h))

=============================================================================
