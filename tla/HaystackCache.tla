--------------------------- MODULE HaystackCache ---------------------------
(***************************************************************************)
(* The Haystack cache controller: a Flask server (server.py) that answers  *)
(* photo requests from one memcached server through the single connection  *)
(* that haystackCacheController holds.  The server is single-threaded, as  *)
(* app.run () was in the Flask releases that have flask.ext: it takes the  *)
(* next request when the previous one is answered.                         *)
(*                                                                         *)
(* External: the HTTP clients, Flask, the memcached client, whose get      *)
(* sends a legal key and waits for the answer, closes the connection and   *)
(* raises if anything is wrong, and opens it again when next used; and the *)
(* memcached server, which the Haystack store fills, which forgets photos, *)
(* and which may end the connection.                                       *)
(***************************************************************************)
EXTENDS Naturals, Sequences

CONSTANTS Clients, Ids, Photos,
          IllegalIds,\* ids that memcached takes for no key: too long, or with spaces
          NoPhoto    \* the id is not in the cache: client.get returns None

ASSUME HaystackAssumption == NoPhoto \notin Photos /\ IllegalIds \subseteq Ids

VARIABLES cache,     \* what memcached holds, by id
          request,   \* the last request of a client
          answer,    \* its answer: a status and, with 200, the photo
          current,   \* what the cache held for its id since it was sent
          backlog,   \* clients whose request was not accepted yet
          handling,  \* the clients whose request is being handled
          sock,      \* the connection: "closed", "open" or "ended" by memcached
          asked,     \* keys on their way to memcached
          replies    \* answers on their way back

vars == <<cache, request, answer, current, backlog, handling, sock, asked, replies>>

connection == <<sock, asked, replies>>

Held == Photos \cup {NoPhoto}

Requests == [method : {"GET", "POST"}, id : Ids]

NoAnswer == [status |-> 0, photo |-> NoPhoto]
Found(photo) == [status |-> 200, photo |-> photo]
ServerError == [status |-> 500, photo |-> NoPhoto]
Answers == [status : {0, 200, 500}, photo : Held]

Init ==
  /\ cache \in [Ids -> Held]
  /\ \A id \in IllegalIds : cache[id] = NoPhoto
  /\ request \in [Clients -> Requests]
  /\ answer = [c \in Clients |-> ServerError]
  /\ current = [c \in Clients |-> {}]
  /\ backlog = <<>>
  /\ handling = {}
  /\ sock = "closed" /\ asked = <<>> /\ replies = <<>>

\* A client that has its answer sends the next request.
SendRequest(c, r) ==
  /\ answer[c] # NoAnswer
  /\ request' = [request EXCEPT ![c] = r]
  /\ answer' = [answer EXCEPT ![c] = NoAnswer]
  /\ current' = [current EXCEPT ![c] = {cache[r.id]}]
  /\ backlog' = Append(backlog, c)
  /\ UNCHANGED <<cache, handling, connection>>

\* Mutant: the server handles every request in a thread of its own.
MayAcceptThreaded == backlog # <<>>

\* app.run (): one request at a time, in the order of arrival.
MayAccept == backlog # <<>> /\ handling = {}

\* The connection when the client has opened it, if it was closed.
Opened == IF sock = "closed" THEN "open" ELSE sock

\* getPhoto up to the answer: queryMemcache sends the key, after opening the
\* connection if it is closed.  That memcached ended it is not noticed yet.
getPhoto ==
  LET c == Head(backlog) IN
  /\ MayAccept
  /\ request[c].method = "GET" /\ request[c].id \notin IllegalIds
  /\ backlog' = Tail(backlog)
  /\ handling' = handling \cup {c}
  /\ sock' = Opened
  /\ asked' = IF sock = "ended" THEN asked ELSE Append(asked, request[c].id)
  /\ UNCHANGED <<cache, request, answer, current, replies>>

\* The connection cannot be opened: client.get raises.
getPhotoUnconnected ==
  LET c == Head(backlog) IN
  /\ MayAccept
  /\ request[c].method = "GET"
  /\ sock = "closed"
  /\ backlog' = Tail(backlog)
  /\ answer' = [answer EXCEPT ![c] = ServerError]
  /\ UNCHANGED <<cache, request, current, handling, connection>>

\* client.get raises because the key is illegal, before it sends anything; some
\* releases of the client have opened the connection by then.
getPhotoIllegal ==
  LET c == Head(backlog) IN
  /\ MayAccept
  /\ request[c].method = "GET" /\ request[c].id \in IllegalIds
  /\ backlog' = Tail(backlog)
  /\ answer' = [answer EXCEPT ![c] = ServerError]
  /\ sock' \in {sock, Opened}
  /\ UNCHANGED <<cache, request, current, handling, asked, replies>>

\* writePhoto returns an integer, from which Flask can make no response.
writePhoto ==
  LET c == Head(backlog) IN
  /\ MayAccept
  /\ request[c].method = "POST"
  /\ backlog' = Tail(backlog)
  /\ answer' = [answer EXCEPT ![c] = ServerError]
  /\ UNCHANGED <<cache, request, current, handling, connection>>

\* memcached answers the next key.
Serve ==
  /\ asked # <<>>
  /\ asked' = Tail(asked)
  /\ replies' = Append(replies, cache[Head(asked)])
  /\ UNCHANGED <<cache, request, answer, current, backlog, handling, sock>>

\* What getPhoto returns for what client.get returned: from None, which is a
\* miss, Flask can make no response.
AnswerOf(photo) == IF photo = NoPhoto THEN ServerError ELSE Found(photo)

\* getPhoto returns.
ReadReply(c) ==
  /\ c \in handling
  /\ replies # <<>>
  /\ replies' = Tail(replies)
  /\ answer' = [answer EXCEPT ![c] = AnswerOf(Head(replies))]
  /\ handling' = handling \ {c}
  /\ UNCHANGED <<cache, request, current, backlog, sock, asked>>

\* The connection ends, with what was on its way.
Disconnect ==
  /\ sock = "open"
  /\ sock' = "ended" /\ asked' = <<>> /\ replies' = <<>>
  /\ UNCHANGED <<cache, request, answer, current, backlog, handling>>

\* Mutant: the exception ends the handler and the client is never answered.
ReadErrorUnanswered(c) ==
  /\ c \in handling
  /\ sock = "ended"
  /\ sock' = "closed"
  /\ handling' = handling \ {c}
  /\ UNCHANGED <<cache, request, answer, current, backlog, asked, replies>>

\* client.get finds the connection ended, closes it and raises; Flask answers.
ReadError(c) ==
  /\ c \in handling
  /\ sock = "ended"
  /\ sock' = "closed"
  /\ answer' = [answer EXCEPT ![c] = ServerError]
  /\ handling' = handling \ {c}
  /\ UNCHANGED <<cache, request, current, backlog, asked, replies>>

\* The store puts a photo into memcached, or memcached forgets it.
SetCache(id, photo) ==
  /\ id \notin IllegalIds
  /\ cache' = [cache EXCEPT ![id] = photo]
  /\ current' = [c \in Clients |->
                   IF answer[c] = NoAnswer /\ request[c].id = id
                   THEN current[c] \cup {photo} ELSE current[c]]
  /\ UNCHANGED <<request, answer, backlog, handling, connection>>

Next ==
  \/ \E c \in Clients, r \in Requests : SendRequest(c, r)
  \/ getPhoto \/ getPhotoUnconnected \/ getPhotoIllegal \/ writePhoto
  \/ Serve \/ Disconnect
  \/ \E c \in Clients : ReadReply(c) \/ ReadError(c)
  \/ \E id \in Ids, photo \in Held : SetCache(id, photo)

Spec == Init /\ [][Next]_vars

\* The server's loop and its handlers run on, and memcached answers what it is
\* asked unless the connection ends.
Fairness ==
  /\ WF_vars(getPhoto) /\ WF_vars(getPhotoIllegal) /\ WF_vars(writePhoto)
  /\ WF_vars(Serve)
  /\ \A c \in Clients : WF_vars(ReadReply(c) \/ ReadError(c))

FairSpec == Spec /\ Fairness

-----------------------------------------------------------------------------
\* Types; the connection carries one question or one answer at most, that of
\* the request being handled.
TypeOK ==
  /\ cache \in [Ids -> Held]
  /\ request \in [Clients -> Requests]
  /\ answer \in [Clients -> Answers]
  /\ current \in [Clients -> SUBSET Held]
  /\ backlog \in Seq(Clients)
  /\ handling \in SUBSET Clients
  /\ sock \in {"closed", "open", "ended"}
  /\ asked \in Seq(Ids)
  /\ replies \in Seq(Held)
  /\ Len(asked) + Len(replies) <= 1

\* A photo that a client gets was in the cache under the id it asked for at
\* some moment between its request and the answer, although photos are
\* replaced and forgotten meanwhile, all requests share one connection and
\* the connection may end with an answer on its way.
PhotoIsCurrent ==
  \A c \in Clients : answer[c].status = 200 => answer[c].photo \in current[c]

\* Every request is answered.
EveryRequestAnswered ==
  \A c \in Clients : answer[c] = NoAnswer ~> answer[c] # NoAnswer
=============================================================================
