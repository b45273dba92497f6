--------------------------- MODULE MCClientSessions ---------------------------
(* A page and an extension of one browser, new to the server or coming     *)
(* back, and two deployments: a development server that lists the          *)
(* extension, and a production server with its origin set that does not.   *)
EXTENDS ClientSessions, TLC

CONSTANTS Web, Popup, Latch, Stranger, Public

PageOf == [c \in Clients |->
  IF c = Web THEN [scheme |-> "https", name |-> Public, port |-> NoPort]
  ELSE ExtensionUrl(Latch)]

Plain == [host |-> [name |-> Public, port |-> NoPort], proto |-> "https", origin |-> None,
          referer |-> None, header |-> None, body |-> None]

\* A proxy may strip the extension's Origin; its fields may disagree.
MCEnvelopes == [c \in Clients |-> [route \in Routes |->
  IF c = Web \/ route \notin {"begin", "finish"} THEN {Plain}
  ELSE {[Plain EXCEPT !.proto = None],
        [Plain EXCEPT !.origin = ExtensionUrl(Latch), !.body = Latch],
        [Plain EXCEPT !.header = Latch, !.body = Stranger]}]]

Development == [production |-> FALSE, allowed |-> {Latch}, cors |-> FALSE,
                origin |-> None, rpId |-> None]

Production == [production |-> TRUE, allowed |-> {}, cors |-> FALSE,
               origin |-> [scheme |-> "https", name |-> Public, port |-> NoPort], rpId |-> Public]

MCDeployments == {Development, Production}

(* A browser whose session ends at the next tick: the cookie was stored    *)
(* together with that expiry, or one tick later, by a slower request.      *)
InitReturning ==
  /\ env \in Deployments
  /\ now = StartTime
  /\ challenges = {} /\ issued = {} /\ responses = {}
  /\ \E u \in Users :
       /\ session = [v \in Users |-> IF v = u THEN StartTime + 1 ELSE 0]
       /\ owner = u
       /\ \E last \in {0, 1} :
            /\ jar = [user |-> u, until |-> StartTime + 1 + last]
            /\ seen = StartTime + 1 + last - SessionTTL
  /\ intents = 0
  /\ handler = [h \in Handlers |-> Idle]
  /\ sent = 0 /\ split = FALSE /\ raced = FALSE

MCSpec == (Init \/ InitReturning) /\ [][Next]_vars

Symmetry == Permutations(Handlers) \cup Permutations(Users) \cup Permutations(Challenges)

=============================================================================
