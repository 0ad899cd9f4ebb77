--------------------------- MODULE HaystackProofs ---------------------------
(***************************************************************************)
(* The safety properties of HaystackCache, for any set of clients, ids and *)
(* photos.  What has to be added to make them inductive: a request is in   *)
(* the backlog or being handled once at most and until it is answered, one *)
(* request is handled at a time, and what the connection carries belongs   *)
(* to it.                                                                  *)
(***************************************************************************)
EXTENDS HaystackCache, TLAPS

\* A client is in the backlog at most once, not while it is being handled, and
\* has no answer; likewise while it is handled.
BacklogInv ==
  /\ \A n \in 1 .. Len(backlog) :
       answer[backlog[n]] = NoAnswer /\ backlog[n] \notin handling
  /\ \A m, n \in 1 .. Len(backlog) : backlog[m] = backlog[n] => m = n
  /\ \A c \in handling : answer[c] = NoAnswer
  /\ \A c, d \in handling : c = d

\* What the connection carries belongs to the request that is handled.
ConnectionInv ==
  /\ handling = {} => asked = <<>> /\ replies = <<>>
  /\ sock # "open" => asked = <<>> /\ replies = <<>>
  /\ Len(asked) + Len(replies) <= 1
  /\ \A c \in handling :
       /\ \A n \in 1 .. Len(asked) : asked[n] = request[c].id
       /\ \A n \in 1 .. Len(replies) : replies[n] \in current[c]

\* What the cache holds is among what an unanswered request may be told.
CurrentInv ==
  \A c \in Clients : answer[c] = NoAnswer => cache[request[c].id] \in current[c]

Types ==
  /\ cache \in [Ids -> Held]
  /\ request \in [Clients -> Requests]
  /\ answer \in [Clients -> Answers]
  /\ current \in [Clients -> SUBSET Held]
  /\ backlog \in Seq(Clients)
  /\ handling \in SUBSET Clients
  /\ sock \in {"closed", "open", "ended"}
  /\ asked \in Seq(Ids)
  /\ replies \in Seq(Held)

IInv == Types /\ BacklogInv /\ ConnectionInv /\ CurrentInv /\ PhotoIsCurrent

\* An answer with a status is an answer.
LEMMA AnswerFacts ==
  /\ ServerError \in Answers /\ NoAnswer \in Answers
  /\ ServerError # NoAnswer
  /\ ServerError.status # 200 /\ NoAnswer.status # 200
  /\ \A p \in Held : AnswerOf(p) \in Answers /\ AnswerOf(p) # NoAnswer
  /\ \A p \in Held : AnswerOf(p).status = 200 => AnswerOf(p).photo = p
  BY DEF ServerError, NoAnswer, Answers, Held, AnswerOf, Found

\* The initial states satisfy the invariant.
LEMMA InitInv == Init => IInv
<1> SUFFICES ASSUME Init PROVE IInv
  OBVIOUS
<1>1. Types
  BY AnswerFacts DEF Init, Types
<1>2. BacklogInv /\ ConnectionInv
  BY DEF Init, BacklogInv, ConnectionInv
<1>3. CurrentInv /\ PhotoIsCurrent
  BY AnswerFacts DEF Init, CurrentInv, PhotoIsCurrent
<1> QED
  BY <1>1, <1>2, <1>3 DEF IInv

\* Taking the head of the backlog keeps the order and the rest of it.
LEMMA TakeHead ==
  ASSUME NEW s \in Seq(Clients), s # <<>>
  PROVE  /\ Head(s) = s[1] /\ Head(s) \in Clients
         /\ Tail(s) \in Seq(Clients)
         /\ Len(Tail(s)) = Len(s) - 1 /\ Len(s) \in Nat \ {0}
         /\ \A n \in 1 .. Len(Tail(s)) : Tail(s)[n] = s[n + 1]
  OBVIOUS

\* A sequence that is not empty has a head.
LEMMA HasHead ==
  ASSUME NEW S, NEW s \in Seq(S), s # <<>>
  PROVE  Len(s) \in Nat \ {0} /\ Head(s) = s[1] /\ s[1] \in S
  OBVIOUS

\* The arithmetic of one thing on the connection.
LEMMA OneAtMost ==
  ASSUME NEW a \in Nat \ {0}, NEW b \in Nat, a + b <= 1 \/ b + a <= 1
  PROVE  a = 1 /\ b = 0
  OBVIOUS

\* A step keeps the invariant.
LEMMA StepInv == IInv /\ [Next]_vars => IInv'
<1> SUFFICES ASSUME IInv, [Next]_vars PROVE IInv'
  OBVIOUS
<1> USE DEF IInv
<1>1. ASSUME NEW c \in Clients, NEW r \in Requests, SendRequest(c, r) PROVE IInv'
  <2>0. r.id \in Ids
    BY DEF Requests
  <2>1. Types'
    BY <1>1, <2>0, AnswerFacts DEF SendRequest, Types, connection, Held
  <2>2. c \notin handling /\ \A n \in 1 .. Len(backlog) : backlog[n] # c
    BY <1>1 DEF SendRequest, BacklogInv
  <2>3. /\ Len(backlog') = Len(backlog) + 1 /\ Len(backlog) \in Nat
        /\ \A n \in 1 .. Len(backlog) : backlog'[n] = backlog[n] /\ backlog[n] \in Clients
        /\ backlog'[Len(backlog) + 1] = c
    BY <1>1 DEF SendRequest, Types
  <2>4. \A d \in Clients : d # c => answer'[d] = answer[d] /\ request'[d] = request[d]
                                    /\ current'[d] = current[d]
    BY <1>1 DEF SendRequest, Types
  <2>5. answer'[c] = NoAnswer /\ request'[c] = r /\ current'[c] = {cache[r.id]}
    BY <1>1 DEF SendRequest, Types
  <2>6. handling' = handling /\ cache' = cache /\ sock' = sock /\ asked' = asked
        /\ replies' = replies
    BY <1>1 DEF SendRequest, connection
  <2>7. BacklogInv'
    <3>1. \A n \in 1 .. Len(backlog') : n \in 1 .. Len(backlog) \/ n = Len(backlog) + 1
      BY <2>3
    <3>2. \A n \in 1 .. Len(backlog') :
            answer'[backlog'[n]] = NoAnswer /\ backlog'[n] \notin handling'
      BY <3>1, <2>2, <2>3, <2>4, <2>5, <2>6 DEF BacklogInv
    <3>3. \A m, n \in 1 .. Len(backlog') : backlog'[m] = backlog'[n] => m = n
      BY <3>1, <2>2, <2>3 DEF BacklogInv
    <3>4. (\A d \in handling : answer[d] = NoAnswer)'
      BY <2>2, <2>4, <2>6 DEF BacklogInv, Types
    <3> QED
      BY <3>2, <3>3, <3>4, <2>6 DEF BacklogInv
  <2>8. ConnectionInv'
    BY <2>2, <2>4, <2>6 DEF ConnectionInv, Types
  <2>9. CurrentInv' /\ PhotoIsCurrent'
    BY <2>4, <2>5, <2>6, AnswerFacts DEF CurrentInv, PhotoIsCurrent
  <2> QED
    BY <2>1, <2>7, <2>8, <2>9
<1>2. ASSUME getPhoto PROVE IInv'
  <2> DEFINE c == Head(backlog)
  <2>1. backlog # <<>> /\ handling = {}
    BY <1>2 DEF getPhoto, MayAccept
  <2>2. /\ c = backlog[1] /\ c \in Clients /\ Tail(backlog) \in Seq(Clients)
        /\ Len(Tail(backlog)) = Len(backlog) - 1 /\ Len(backlog) \in Nat \ {0}
        /\ \A n \in 1 .. Len(Tail(backlog)) : Tail(backlog)[n] = backlog[n + 1]
    BY <2>1, TakeHead DEF Types
  <2>3. /\ backlog' = Tail(backlog) /\ handling' = {c}
        /\ sock' = IF sock = "closed" THEN "open" ELSE sock
        /\ asked' = IF sock = "ended" THEN asked ELSE Append(asked, request[c].id)
        /\ cache' = cache /\ request' = request /\ answer' = answer
        /\ current' = current /\ replies' = replies
    BY <1>2, <2>1 DEF getPhoto, Opened
  <2>4. asked = <<>> /\ replies = <<>>
    BY <2>1 DEF ConnectionInv
  <2>5. request[c].id \in Ids
    BY <2>2 DEF Types, Requests
  <2> HIDE DEF c
  <2>6. Types'
    BY <2>2, <2>3, <2>5 DEF Types
  <2>7. BacklogInv'
    BY <2>2, <2>3 DEF BacklogInv
  <2>8. asked' \in {<<>>, <<request[c].id>>}
    BY <2>3, <2>4
  <2>9. ConnectionInv'
    <3>1. CASE sock = "ended"
      BY <3>1, <2>3, <2>4 DEF ConnectionInv
    <3>2. CASE sock # "ended"
      <4>1. asked' = <<request[c].id>> /\ sock' = "open"
        BY <3>2, <2>3, <2>4 DEF Types
      <4> QED
        BY <4>1, <2>3, <2>4 DEF ConnectionInv
    <3> QED
      BY <3>1, <3>2
  <2>10. CurrentInv' /\ PhotoIsCurrent'
    BY <2>3 DEF CurrentInv, PhotoIsCurrent
  <2> QED
    BY <2>6, <2>7, <2>9, <2>10
<1>3. ASSUME getPhotoUnconnected \/ getPhotoIllegal \/ writePhoto PROVE IInv'
  <2> DEFINE c == Head(backlog)
  <2>1. backlog # <<>> /\ handling = {}
    BY <1>3 DEF getPhotoUnconnected, getPhotoIllegal, writePhoto, MayAccept
  <2>2. /\ c = backlog[1] /\ c \in Clients /\ Tail(backlog) \in Seq(Clients)
        /\ Len(Tail(backlog)) = Len(backlog) - 1 /\ Len(backlog) \in Nat \ {0}
        /\ \A n \in 1 .. Len(Tail(backlog)) : Tail(backlog)[n] = backlog[n + 1]
    BY <2>1, TakeHead DEF Types
  <2>3. /\ backlog' = Tail(backlog) /\ handling' = handling
        /\ answer' = [answer EXCEPT ![c] = ServerError]
        /\ cache' = cache /\ request' = request /\ current' = current
        /\ sock' \in {sock, "open"} /\ asked' = asked /\ replies' = replies
    BY <1>3 DEF getPhotoUnconnected, getPhotoIllegal, Opened, writePhoto, connection
  <2> HIDE DEF c
  <2>4. Types'
    BY <2>2, <2>3, AnswerFacts DEF Types
  <2>5. answer'[c] = ServerError /\ \A d \in Clients : d # c => answer'[d] = answer[d]
    BY <2>2, <2>3 DEF Types
  <2>6. \A n \in 1 .. Len(backlog') :
          backlog'[n] # c /\ backlog'[n] = backlog[n + 1] /\ backlog'[n] \in Clients
    BY <2>2, <2>3 DEF BacklogInv, Types
  <2>7. BacklogInv'
    <3>1. \A n \in 1 .. Len(backlog') : answer'[backlog'[n]] = NoAnswer
      BY <2>2, <2>3, <2>5, <2>6 DEF BacklogInv
    <3> QED
      BY <3>1, <2>1, <2>2, <2>3, <2>6 DEF BacklogInv
  <2>8. ConnectionInv'
    BY <2>1, <2>3 DEF ConnectionInv
  <2>9. CurrentInv' /\ PhotoIsCurrent'
    BY <2>3, <2>5, AnswerFacts DEF CurrentInv, PhotoIsCurrent
  <2> QED
    BY <2>4, <2>7, <2>8, <2>9
<1>4. ASSUME Serve PROVE IInv'
  <2>1. /\ asked # <<>> /\ asked' = Tail(asked)
        /\ replies' = Append(replies, cache[Head(asked)])
        /\ cache' = cache /\ request' = request /\ answer' = answer
        /\ current' = current /\ backlog' = backlog /\ handling' = handling
        /\ sock' = sock
    BY <1>4 DEF Serve
  <2>2. Len(asked) = 1 /\ Len(replies) = 0 /\ Head(asked) = asked[1] /\ asked[1] \in Ids
    <3>1. Len(asked) \in Nat \ {0} /\ Head(asked) = asked[1] /\ asked[1] \in Ids
      BY <2>1, HasHead DEF Types
    <3>2. Len(replies) \in Nat /\ Len(asked) + Len(replies) <= 1
      BY DEF Types, ConnectionInv
    <3> QED
      BY <3>1, <3>2, OneAtMost
  <2>3. asked' = <<>> /\ replies' = <<cache[asked[1]]>>
    BY <2>1, <2>2 DEF Types
  <2>4. Types'
    BY <2>1, <2>2, <2>3 DEF Types
  <2>5. BacklogInv'
    BY <2>1 DEF BacklogInv
  <2>6. ConnectionInv'
    <3>1. \A c \in handling : cache[asked[1]] \in current[c]
      BY <2>2 DEF ConnectionInv, CurrentInv, BacklogInv, Types
    <3>2. handling # {} /\ sock = "open"
      BY <2>1 DEF ConnectionInv
    <3>3. Len(asked') + Len(replies') <= 1
      BY <2>3
    <3>4. \A n \in 1 .. Len(replies') : replies'[n] = cache[asked[1]]
      BY <2>3
    <3>5. \A n \in 1 .. Len(asked') : FALSE
      BY <2>3
    <3> QED
      BY <3>1, <3>2, <3>3, <3>4, <3>5, <2>1 DEF ConnectionInv
  <2>7. CurrentInv' /\ PhotoIsCurrent'
    BY <2>1 DEF CurrentInv, PhotoIsCurrent
  <2> QED
    BY <2>4, <2>5, <2>6, <2>7
<1>5. ASSUME Disconnect PROVE IInv'
  BY <1>5 DEF Disconnect, Types, BacklogInv, ConnectionInv, CurrentInv, PhotoIsCurrent
<1>6. ASSUME NEW c \in Clients, ReadReply(c) PROVE IInv'
  <2>1. /\ c \in handling /\ replies # <<>> /\ replies' = Tail(replies)
        /\ answer' = [answer EXCEPT ![c] = AnswerOf(Head(replies))]
        /\ handling' = handling \ {c}
        /\ cache' = cache /\ request' = request /\ current' = current
        /\ backlog' = backlog /\ sock' = sock /\ asked' = asked
    BY <1>6 DEF ReadReply
  <2>2. Len(replies) = 1 /\ Len(asked) = 0 /\ Head(replies) = replies[1]
        /\ replies[1] \in Held
    <3>1. Len(replies) \in Nat \ {0} /\ Head(replies) = replies[1] /\ replies[1] \in Held
      BY <2>1, HasHead DEF Types
    <3>2. Len(asked) \in Nat /\ Len(asked) + Len(replies) <= 1
      BY DEF Types, ConnectionInv
    <3> QED
      BY <3>1, <3>2, OneAtMost
  <2>3. asked' = <<>> /\ replies' = <<>> /\ handling' = {}
    BY <2>1, <2>2 DEF Types, BacklogInv
  <2>4. Types'
    BY <2>1, <2>2, <2>3, AnswerFacts DEF Types
  <2>5. answer'[c] = AnswerOf(replies[1]) /\ \A d \in Clients : d # c => answer'[d] = answer[d]
    BY <2>1, <2>2 DEF Types
  <2>6. BacklogInv'
    <3>1. \A n \in 1 .. Len(backlog) : backlog[n] # c /\ backlog[n] \in Clients
      BY <2>1 DEF BacklogInv, Types
    <3> QED
      BY <3>1, <2>1, <2>3, <2>5 DEF BacklogInv
  <2>7. ConnectionInv'
    BY <2>3, <2>1 DEF ConnectionInv
  <2>8. CurrentInv'
    BY <2>1, <2>2, <2>5, AnswerFacts DEF CurrentInv
  <2>9. PhotoIsCurrent'
    <3>1. replies[1] \in current[c]
      BY <2>1, <2>2 DEF ConnectionInv
    <3> QED
      BY <3>1, <2>1, <2>2, <2>5, AnswerFacts DEF PhotoIsCurrent
  <2> QED
    BY <2>4, <2>6, <2>7, <2>8, <2>9
<1>7. ASSUME NEW c \in Clients, ReadError(c) PROVE IInv'
  <2>1. /\ c \in handling /\ sock = "ended" /\ sock' = "closed"
        /\ answer' = [answer EXCEPT ![c] = ServerError]
        /\ handling' = handling \ {c}
        /\ cache' = cache /\ request' = request /\ current' = current
        /\ backlog' = backlog /\ asked' = asked /\ replies' = replies
    BY <1>7 DEF ReadError
  <2>2. handling' = {} /\ asked = <<>> /\ replies = <<>>
    BY <2>1 DEF BacklogInv, ConnectionInv
  <2>3. Types'
    BY <2>1, AnswerFacts DEF Types
  <2>4. answer'[c] = ServerError /\ \A d \in Clients : d # c => answer'[d] = answer[d]
    BY <2>1 DEF Types
  <2>5. BacklogInv'
    <3>1. \A n \in 1 .. Len(backlog) : backlog[n] # c /\ backlog[n] \in Clients
      BY <2>1 DEF BacklogInv, Types
    <3> QED
      BY <3>1, <2>1, <2>2, <2>4 DEF BacklogInv
  <2>6. ConnectionInv'
    BY <2>1, <2>2 DEF ConnectionInv
  <2>7. CurrentInv' /\ PhotoIsCurrent'
    BY <2>1, <2>4, AnswerFacts DEF CurrentInv, PhotoIsCurrent
  <2> QED
    BY <2>3, <2>5, <2>6, <2>7
<1>8. ASSUME NEW id \in Ids, NEW photo \in Held, SetCache(id, photo) PROVE IInv'
  <2>1. /\ cache' = [cache EXCEPT ![id] = photo]
        /\ request' = request /\ answer' = answer /\ backlog' = backlog
        /\ handling' = handling /\ sock' = sock /\ asked' = asked /\ replies' = replies
    BY <1>8 DEF SetCache, connection
  <2>2. \A c \in Clients :
          current'[c] = IF answer[c] = NoAnswer /\ request[c].id = id
                        THEN current[c] \cup {photo} ELSE current[c]
    BY <1>8 DEF SetCache
  <2>3. current' \in [Clients -> SUBSET Held]
    BY <1>8 DEF SetCache, Types
  <2>4. Types'
    BY <2>1, <2>3 DEF Types
  <2>5. BacklogInv'
    BY <2>1 DEF BacklogInv
  <2>g. \A c \in Clients : current[c] \subseteq current'[c]
    BY <2>2
  <2>6. ConnectionInv'
    <3>1. handling \subseteq Clients
      BY DEF Types
    <3>2. ASSUME NEW c \in handling, NEW n \in 1 .. Len(replies)
          PROVE  replies[n] \in current'[c]
      BY <2>g, <3>1 DEF ConnectionInv
    <3> QED
      BY <3>2, <2>1 DEF ConnectionInv
  <2>7. CurrentInv'
    <3> SUFFICES ASSUME NEW c \in Clients, answer[c] = NoAnswer
                 PROVE  cache'[request[c].id] \in current'[c]
      BY <2>1 DEF CurrentInv
    <3>1. request[c].id \in Ids /\ cache \in [Ids -> Held]
      BY DEF Types, Requests
    <3>2. cache[request[c].id] \in current[c]
      BY DEF CurrentInv
    <3>3. CASE request[c].id = id
      <4>1. cache'[request[c].id] = photo
        BY <2>1, <3>1, <3>3
      <4>2. photo \in current'[c]
        BY <2>2, <3>3
      <4> QED
        BY <4>1, <4>2
    <3>4. CASE request[c].id # id
      <4>1. cache'[request[c].id] = cache[request[c].id]
        BY <2>1, <3>1, <3>4
      <4> QED
        BY <4>1, <3>2, <2>g
    <3> QED
      BY <3>3, <3>4
  <2>8. PhotoIsCurrent'
    <3> SUFFICES ASSUME NEW c \in Clients, answer[c].status = 200
                 PROVE  answer[c].photo \in current'[c]
      BY <2>1 DEF PhotoIsCurrent
    <3>1. answer[c].photo \in current[c]
      BY DEF PhotoIsCurrent
    <3> QED
      BY <3>1, <2>g
  <2> QED
    BY <2>4, <2>5, <2>6, <2>7, <2>8
<1>9. CASE UNCHANGED vars
  BY <1>9 DEF vars, Types, BacklogInv, ConnectionInv, CurrentInv, PhotoIsCurrent
<1> QED
  BY <1>1, <1>2, <1>3, <1>4, <1>5, <1>6, <1>7, <1>8, <1>9 DEF Next

\* The invariant of the controller holds always.
THEOREM Invariance == Spec => []IInv
<1> QED
  BY InitInv, StepInv, PTL DEF Spec

\* The types of all variables, and one question or answer on the connection.
THEOREM TypeCorrect == Spec => []TypeOK
<1>1. IInv => TypeOK
  BY DEF IInv, Types, ConnectionInv, TypeOK
<1> QED
  BY <1>1, Invariance, PTL

\* getPhoto answers with a photo that the cache held under the id meanwhile.
THEOREM PhotosAreCurrent == Spec => []PhotoIsCurrent
<1>1. IInv => PhotoIsCurrent
  BY DEF IInv
<1> QED
  BY <1>1, Invariance, PTL
=============================================================================
