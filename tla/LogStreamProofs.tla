--------------------------- MODULE LogStreamProofs ---------------------------
(***************************************************************************)
(* Theorems of LogStream, for any executions, clients and number of lines. *)
(***************************************************************************)
EXTENDS LogStream, SequenceTheorems, TLAPS

(* Between the two halves of emit there is a line.                         *)
LineInHand == \A e \in Exec : epc[e] = "persist" => line[e] \in 1..MaxLines

TypeInv == TypeOK /\ LineInHand

LEMMA InitType == Init => TypeInv
  BY MaxLinesAssumption DEF Init, TypeInv, TypeOK, LineInHand, CPC, Outcome

LEMMA Messages ==
  ASSUME NEW e \in Exec
  PROVE  /\ <<e, Complete>> \in Message
         /\ \A n \in 1..MaxLines : <<e, n>> \in Message /\ <<e, n>> \in Line /\ n # Complete
  BY MaxLinesAssumption DEF Message, Line, Complete

LEMMA PublishType ==
  ASSUME TypeInv, NEW m \in Message, Publish(m)
  PROVE  channel' \in Seq(Message) /\ inbox' \in [Client -> Seq(Message)]
  BY DEF TypeInv, TypeOK, Publish

LEMMA TaskType ==
  ASSUME TypeInv, NEW e \in Exec, TaskNext(e)
  PROVE  TypeInv'
  <1>1. UNCHANGED <<socket, gone, page, exists>>
    BY DEF TaskNext, Attach, PublishLine, PublishFails, Persist, CloseHandler, Killed, db
  <1>2. CASE Attach(e)
    BY <1>1, <1>2 DEF Attach, TypeInv, TypeOK, LineInHand, db, socket
  <1>3. CASE PublishLine(e)
    <2>1. line[e] + 1 \in 1..MaxLines
      BY <1>3, MaxLinesAssumption DEF PublishLine, TypeInv, TypeOK
    <2>2. channel' \in Seq(Message) /\ inbox' \in [Client -> Seq(Message)]
      BY <1>3, <2>1, Messages, PublishType DEF PublishLine
    <2> QED
      BY <1>1, <1>3, <2>1, <2>2 DEF PublishLine, TypeInv, TypeOK, LineInHand, db, socket
  <1>4. CASE PublishFails(e)
    <2>1. line[e] + 1 \in 1..MaxLines
      BY <1>4, MaxLinesAssumption DEF PublishFails, TypeInv, TypeOK
    <2>2. dropped' \subseteq Line
      BY <1>4, <2>1, Messages DEF PublishFails, TypeInv, TypeOK
    <2>3. line' \in [Exec -> 0..MaxLines] /\ LineInHand'
      BY <1>4, <2>1 DEF PublishFails, TypeInv, TypeOK, LineInHand
    <2> QED
      BY <1>1, <1>4, <2>2, <2>3 DEF PublishFails, TypeInv, TypeOK, socket
  <1>5. CASE Persist(e)
    <2>1. <<e, line[e]>> \in Line
      BY <1>5, Messages DEF Persist, TypeInv, LineInHand
    <2> QED
      BY <1>1, <1>5, <2>1 DEF Persist, TypeInv, TypeOK, LineInHand, socket
  <1>6. CASE CloseHandler(e)
    <2>1. channel' \in Seq(Message) /\ inbox' \in [Client -> Seq(Message)]
      BY <1>6, Messages, PublishType DEF CloseHandler, TypeInv, TypeOK
    <2> QED
      BY <1>1, <1>6, <2>1 DEF CloseHandler, TypeInv, TypeOK, LineInHand, db, socket
  <1>7. CASE Killed(e)
    <2>1. epc[e] = "persist" => <<e, line[e]>> \in Line
      BY Messages DEF TypeInv, LineInHand
    <2> QED
      BY <1>1, <1>7, <2>1 DEF Killed, TypeInv, TypeOK, LineInHand, socket
  <1> QED
    BY <1>2, <1>3, <1>4, <1>5, <1>6, <1>7 DEF TaskNext

LEMMA ClientType ==
  ASSUME TypeInv, NEW c \in Client, ClientNext(c)
  PROVE  TypeInv'
  <1>1. UNCHANGED <<task, db>>
    BY DEF ClientNext, AcceptSocket, Subscribe, CheckDeadline, LoopStep, NoMessage, Forward, RedisFails,
           Unsubscribe, Expire, Leave, LoadJob
  <1>2. LineInHand'
    BY <1>1 DEF TypeInv, LineInHand, task
  <1>3. CASE AcceptSocket(c)
    BY <1>1, <1>2, <1>3 DEF AcceptSocket, TypeInv, TypeOK, task, db, CPC
  <1>8. CASE Subscribe(c)
    BY <1>1, <1>2, <1>8 DEF Subscribe, TypeInv, TypeOK, task, db, CPC, Looping
  <1>4. CASE CheckDeadline(c) \/ RedisFails(c)
    BY <1>1, <1>2, <1>4 DEF CheckDeadline, RedisFails, End, TypeInv, TypeOK, task, db, CPC, Looping, Outcome
  <1>5. CASE NoMessage(c)
    BY <1>1, <1>2, <1>5 DEF NoMessage, TypeInv, TypeOK, task, db, CPC, Looping
  <1>9. CASE Unsubscribe(c)
    BY <1>1, <1>2, <1>9 DEF Unsubscribe, TypeInv, TypeOK, task, db, CPC
  <1>10. CASE Expire(c)
    BY <1>1, <1>2, <1>10 DEF Expire, TypeInv, TypeOK, task, db
  <1>6. CASE Forward(c)
    <2>1. Head(inbox[c]) \in Message /\ Tail(inbox[c]) \in Seq(Message)
      BY <1>6 DEF Forward, TypeInv, TypeOK
    <2>2. inbox' \in [Client -> Seq(Message)]
      BY <1>6, <2>1 DEF Forward, TypeInv, TypeOK
    <2>4. Append(received[c], Head(inbox[c])) \in Seq(Message)
      BY <2>1 DEF TypeInv, TypeOK
    <2>5. received' = received \/ received' = [received EXCEPT ![c] = Append(received[c], Head(inbox[c]))]
      BY <1>6 DEF Forward
    <2>6. received' \in [Client -> Seq(Message)]
      BY <2>4, <2>5 DEF TypeInv, TypeOK
    <2>3. cpc' \in [Client -> CPC] /\ outcome' \in [Client -> Outcome]
      BY <1>6 DEF Forward, End, TypeInv, TypeOK, CPC, Looping, Outcome
    <2> QED
      BY <1>1, <1>2, <1>6, <2>2, <2>3, <2>6 DEF Forward, TypeInv, TypeOK, task, db
  <1>7. CASE Leave(c) \/ LoadJob(c)
    BY <1>1, <1>2, <1>7 DEF Leave, LoadJob, TypeInv, TypeOK, task, db, socket
  <1> QED
    BY <1>3, <1>4, <1>5, <1>6, <1>7, <1>8, <1>9, <1>10 DEF ClientNext, LoopStep

LEMMA NextType == TypeInv /\ [Next]_vars => TypeInv'
  <1> SUFFICES ASSUME TypeInv, [Next]_vars
               PROVE  TypeInv'
    OBVIOUS
  <1>1. CASE DeleteJob
    BY <1>1 DEF DeleteJob, TypeInv, TypeOK, LineInHand, task, socket
  <1>2. CASE UNCHANGED vars
    BY <1>2 DEF vars, TypeInv, TypeOK, LineInHand, task, db, socket
  <1> QED
    BY <1>1, <1>2, TaskType, ClientType DEF Next

LEMMA TypeInvariant == Spec => []TypeInv
  BY InitType, NextType, PTL DEF Spec

(* Every variable keeps its type: what is committed to the database are    *)
(* lines, never a sentinel.                                                *)
THEOREM TypeCorrect == Spec => []TypeOK
  <1>1. TypeInv => TypeOK
    BY DEF TypeInv
  <1> QED
    BY <1>1, TypeInvariant, PTL

-----------------------------------------------------------------------------
(* The stream of a client, position by position.                           *)

(* q stands on the channel ch from position s + 1 on.                      *)
Matches(ch, s, q) ==
  /\ s + Len(q) <= Len(ch)
  /\ \A i \in 1..Len(q) : q[i] = ch[s + i]

LEMMA MatchesAppend ==
  ASSUME NEW S, NEW ch \in Seq(S), NEW q \in Seq(S), NEW s \in Nat, NEW m \in S, Matches(ch, s, q)
  PROVE  Matches(Append(ch, m), s, q)
  BY DEF Matches

LEMMA MatchesBoth ==
  ASSUME NEW S, NEW ch \in Seq(S), NEW q \in Seq(S), NEW s \in Nat, NEW m \in S, Matches(ch, s, q),
         s + Len(q) = Len(ch)
  PROVE  /\ Matches(Append(ch, m), s, Append(q, m))
         /\ s + Len(Append(q, m)) = Len(Append(ch, m))
  BY DEF Matches

LEMMA MatchesMove ==
  ASSUME NEW S, NEW ch \in Seq(S), NEW r \in Seq(S), NEW q \in Seq(S), NEW s \in Nat,
         Matches(ch, s, r), Matches(ch, s + Len(r), q), q # <<>>
  PROVE  /\ Matches(ch, s, Append(r, Head(q)))
         /\ Matches(ch, s + Len(Append(r, Head(q))), Tail(q))
         /\ s + Len(Append(r, Head(q))) + Len(Tail(q)) = s + Len(r) + Len(q)
  <1>1. Len(q) \in Nat /\ Len(q) >= 1 /\ Head(q) = q[1] /\ Head(q) \in S /\ Tail(q) \in Seq(S)
    OBVIOUS
  <1>2. Len(Tail(q)) = Len(q) - 1 /\ \A i \in 1..(Len(q) - 1) : Tail(q)[i] = q[i + 1]
    BY <1>1
  <1> DEFINE a == Append(r, Head(q))
  <1>3. Len(a) = Len(r) + 1 /\ (\A i \in 1..Len(r) : a[i] = r[i]) /\ a[Len(r) + 1] = q[1]
    BY <1>1
  <1>4. Head(q) = ch[s + Len(r) + 1]
    BY <1>1 DEF Matches
  <1> HIDE DEF a
  <1>5. Matches(ch, s, a)
    <2>1. Len(r) \in Nat /\ Len(ch) \in Nat
      OBVIOUS
    <2>2. s + Len(a) <= Len(ch)
      BY <1>1, <1>3, <2>1 DEF Matches
    <2>3. ASSUME NEW i \in 1..Len(r)
          PROVE  a[i] = ch[s + i]
      BY <1>3, <2>1 DEF Matches
    <2>4. a[Len(r) + 1] = ch[s + (Len(r) + 1)]
      BY <1>1, <1>3, <1>4, <2>1
    <2>5. ASSUME NEW i \in 1..Len(a)
          PROVE  a[i] = ch[s + i]
      <3>1. i \in 1..Len(r) \/ i = Len(r) + 1
        BY <1>3, <2>1
      <3> QED
        BY <3>1, <2>3, <2>4
    <2> QED
      BY <2>2, <2>5 DEF Matches
  <1>6. Matches(ch, s + Len(a), Tail(q))
    <2> SUFFICES ASSUME NEW i \in 1..Len(Tail(q))
                 PROVE  Tail(q)[i] = ch[s + Len(a) + i]
      BY <1>1, <1>2, <1>3 DEF Matches
    <2>1. i + 1 \in 1..Len(q) /\ Tail(q)[i] = q[i + 1]
      BY <1>1, <1>2
    <2>2. q[i + 1] = ch[s + Len(r) + (i + 1)]
      BY <2>1 DEF Matches
    <2>3. s + Len(r) + (i + 1) = s + Len(a) + i
      BY <1>3, <1>1, <1>2
    <2> QED
      BY <2>1, <2>2, <2>3
  <1> QED
    BY <1>1, <1>2, <1>3, <1>5, <1>6 DEF a

(* What was sent is on the channel after the start, place for place; while *)
(* the loop runs what is in the inbox comes next and then nothing.         *)
Sent(c) == Matches(channel, start[c], received[c])
Waiting(c) ==
  /\ c \in subscribed
  /\ Matches(channel, start[c] + Len(received[c]), inbox[c])
  /\ start[c] + Len(received[c]) + Len(inbox[c]) = Len(channel)
Fresh(c) == c \notin subscribed /\ received[c] = <<>> /\ inbox[c] = <<>>

Window(c) ==
  /\ Sent(c)
  /\ cpc[c] \in Looping => Waiting(c)
  /\ cpc[c] \in {"away", "accepted"} => Fresh(c)

WindowInv == \A c \in Client : Window(c)

LEMMA InitWindow == Init => WindowInv
  BY DEF Init, WindowInv, Window, Sent, Waiting, Fresh, Looping, Matches

LEMMA Seqs ==
  ASSUME TypeInv, NEW c \in Client
  PROVE  /\ channel \in Seq(Message) /\ received[c] \in Seq(Message) /\ inbox[c] \in Seq(Message)
         /\ start[c] \in Nat /\ Len(received[c]) \in Nat /\ start[c] + Len(received[c]) \in Nat
  BY DEF TypeInv, TypeOK

(* A step that changes neither the channel nor what belongs to c.          *)
LEMMA WindowFrame ==
  ASSUME NEW c \in Client, Window(c), channel' = channel, start'[c] = start[c],
         received'[c] = received[c], inbox'[c] = inbox[c],
         c \in subscribed' <=> c \in subscribed,
         cpc'[c] \in Looping => cpc[c] \in Looping,
         cpc'[c] \in {"away", "accepted"} => cpc[c] \in {"away", "accepted"}
  PROVE  Window(c)'
  BY DEF Window, Sent, Waiting, Fresh

(* A published message goes to the end of the channel and of the inboxes.  *)
LEMMA PublishWindow ==
  ASSUME TypeInv, WindowInv, NEW m \in Message, Publish(m), UNCHANGED socket
  PROVE  WindowInv'
  <1> SUFFICES ASSUME NEW c \in Client
               PROVE  Window(c)'
    BY DEF WindowInv
  <1>1. Window(c)
    BY DEF WindowInv
  <1>2. channel' = Append(channel, m) /\ UNCHANGED <<cpc, subscribed, start, received>>
    BY DEF Publish, socket
  <1>3. Sent(c)'
    BY <1>1, <1>2, Seqs, MatchesAppend DEF Window, Sent
  <1>4. cpc'[c] \in Looping => Waiting(c)'
    <2> SUFFICES ASSUME cpc[c] \in Looping
                 PROVE  Waiting(c)'
      BY <1>2
    <2>1. Waiting(c) /\ inbox'[c] = Append(inbox[c], m)
      BY <1>1 DEF Window, Waiting, Publish
    <2>2. /\ Matches(Append(channel, m), start[c] + Len(received[c]), Append(inbox[c], m))
          /\ start[c] + Len(received[c]) + Len(Append(inbox[c], m)) = Len(Append(channel, m))
      BY <2>1, Seqs, MatchesBoth DEF Waiting
    <2> QED
      BY <1>2, <2>1, <2>2 DEF Waiting
  <1>5. cpc'[c] \in {"away", "accepted"} => Fresh(c)'
    BY <1>1, <1>2 DEF Window, Fresh, Publish
  <1> QED
    BY <1>3, <1>4, <1>5 DEF Window

LEMMA TaskWindow ==
  ASSUME TypeInv, WindowInv, NEW e \in Exec, TaskNext(e)
  PROVE  WindowInv'
  <1>1. UNCHANGED socket
    BY DEF TaskNext, Attach, PublishLine, PublishFails, Persist, CloseHandler, Killed
  <1>2. CASE UNCHANGED <<channel, inbox>>
    BY <1>1, <1>2, WindowFrame DEF WindowInv, socket
  <1>3. CASE \E m \in Message : Publish(m)
    BY <1>1, <1>3, PublishWindow
  <1>4. CASE PublishLine(e)
    <2>1. line[e] + 1 \in 1..MaxLines
      BY <1>4, MaxLinesAssumption DEF PublishLine, TypeInv, TypeOK
    <2>2. <<e, line[e] + 1>> \in Message
      BY <2>1, Messages
    <2> QED
      BY <1>3, <1>4, <2>2 DEF PublishLine
  <1>5. CASE CloseHandler(e)
    BY <1>2, <1>3, <1>5, Messages DEF CloseHandler
  <1> QED
    BY <1>2, <1>4, <1>5 DEF TaskNext, Attach, PublishFails, Persist, Killed

LEMMA SubscribeWindow ==
  ASSUME TypeInv, NEW c \in Client, Window(c), Subscribe(c)
  PROVE  Window(c)'
  <1>1. Fresh(c)
    BY DEF Subscribe, Window
  <1>2. /\ cpc'[c] = "check" /\ c \in subscribed' /\ start'[c] = Len(channel)
        /\ channel' = channel /\ received'[c] = <<>> /\ inbox'[c] = <<>>
    BY <1>1 DEF Subscribe, Fresh, TypeInv, TypeOK, task
  <1>3. Len(channel) \in Nat
    BY DEF TypeInv, TypeOK
  <1> QED
    BY <1>2, <1>3 DEF Window, Sent, Waiting, Looping, Matches

(* The first message in the inbox moves to the socket.                     *)
LEMMA ForwardWindow ==
  ASSUME TypeInv, NEW c \in Client, Window(c), Forward(c)
  PROVE  Window(c)'
  <1>1. Sent(c) /\ Waiting(c) /\ inbox[c] # <<>>
    BY DEF Forward, Window, Looping
  <1>2. channel' = channel /\ start'[c] = start[c] /\ subscribed' = subscribed
    BY DEF Forward, task
  <1>3. inbox'[c] = Tail(inbox[c])
    BY DEF Forward, TypeInv, TypeOK
  <1>4. CASE received' = received /\ cpc' = [cpc EXCEPT ![c] = "finally"]
    <2>1. cpc'[c] = "finally"
      BY <1>4 DEF TypeInv, TypeOK
    <2> QED
      BY <1>1, <1>2, <1>4, <2>1 DEF Window, Sent, Looping
  <1>5. CASE received' = [received EXCEPT ![c] = Append(@, Head(inbox[c]))]
    <2>1. received'[c] = Append(received[c], Head(inbox[c]))
      BY <1>5 DEF TypeInv, TypeOK
    <2>2. /\ Matches(channel, start[c], Append(received[c], Head(inbox[c])))
          /\ Matches(channel, start[c] + Len(Append(received[c], Head(inbox[c]))), Tail(inbox[c]))
          /\ start[c] + Len(Append(received[c], Head(inbox[c]))) + Len(Tail(inbox[c]))
               = start[c] + Len(received[c]) + Len(inbox[c])
      <3>1. /\ Matches(channel, start[c], received[c])
            /\ Matches(channel, start[c] + Len(received[c]), inbox[c])
        BY <1>1 DEF Sent, Waiting
      <3> DEFINE r == received[c]
                 q == inbox[c]
                 s == start[c]
      <3>2. r \in Seq(Message) /\ q \in Seq(Message) /\ s \in Nat /\ channel \in Seq(Message)
        BY Seqs
      <3>3. Matches(channel, s, r) /\ Matches(channel, s + Len(r), q) /\ q # <<>>
        BY <1>1, <3>1
      <3> HIDE DEF r, q, s
      <3>4. /\ Matches(channel, s, Append(r, Head(q)))
            /\ Matches(channel, s + Len(Append(r, Head(q))), Tail(q))
            /\ s + Len(Append(r, Head(q))) + Len(Tail(q)) = s + Len(r) + Len(q)
        BY <3>2, <3>3, MatchesMove
      <3> QED
        BY <3>4 DEF r, q, s
    <2>3. Sent(c)'
      BY <1>2, <2>1, <2>2 DEF Sent
    <2>4. start'[c] + Len(received'[c]) + Len(inbox'[c]) = Len(channel')
      BY <1>1, <1>2, <1>3, <2>1, <2>2 DEF Waiting
    <2>5. Waiting(c)'
      BY <1>1, <1>2, <1>3, <2>1, <2>2, <2>4 DEF Waiting
    <2>6. cpc'[c] \in {"check", "finally"}
      BY DEF Forward, End, TypeInv, TypeOK
    <2> QED
      BY <2>3, <2>5, <2>6 DEF Window
  <1> QED
    BY <1>4, <1>5 DEF Forward, End

LEMMA ClientWindow ==
  ASSUME TypeInv, WindowInv, NEW c \in Client, ClientNext(c)
  PROVE  WindowInv'
  <1>1. Window(c) /\ channel' = channel
    BY DEF WindowInv, ClientNext, AcceptSocket, Subscribe, CheckDeadline, LoopStep, NoMessage, Forward,
           RedisFails, Unsubscribe, Expire, Leave, LoadJob, task
  <1>2. ASSUME NEW d \in Client \ {c}
        PROVE  Window(d)'
    <2>1. cpc'[d] = cpc[d] /\ (d \in subscribed' <=> d \in subscribed) /\ start'[d] = start[d]
      BY DEF ClientNext, AcceptSocket, Subscribe, CheckDeadline, LoopStep, NoMessage, Forward, RedisFails,
             Unsubscribe, Expire, Leave, LoadJob, End, socket, TypeInv, TypeOK
    <2>2. received'[d] = received[d] /\ inbox'[d] = inbox[d]
      BY DEF ClientNext, AcceptSocket, Subscribe, CheckDeadline, LoopStep, NoMessage, Forward, RedisFails,
             Unsubscribe, Expire, Leave, LoadJob, End, socket, TypeInv, TypeOK
    <2> QED
      BY <1>1, <2>1, <2>2, WindowFrame DEF WindowInv
  <1> SUFFICES Window(c)'
    BY <1>2 DEF WindowInv
  <1>3. CASE AcceptSocket(c)
    <2>1. cpc[c] = "away" /\ cpc'[c] = "accepted"
      BY <1>3 DEF AcceptSocket, TypeInv, TypeOK
    <2> QED
      BY <1>1, <1>3, <2>1, WindowFrame DEF AcceptSocket, Looping
  <1>4. CASE Subscribe(c)
    BY <1>1, <1>4, SubscribeWindow
  <1>5. CASE CheckDeadline(c) \/ NoMessage(c) \/ RedisFails(c)
    <2>1. cpc'[c] \in Looping \cup {"finally"} /\ (cpc'[c] \in Looping => cpc[c] \in Looping)
      BY <1>5 DEF CheckDeadline, NoMessage, RedisFails, End, TypeInv, TypeOK, Looping
    <2>2. start'[c] = start[c] /\ received'[c] = received[c] /\ inbox'[c] = inbox[c] /\ subscribed' = subscribed
      BY <1>5 DEF CheckDeadline, NoMessage, RedisFails
    <2> QED
      BY <1>1, <2>1, <2>2, WindowFrame DEF Looping
  <1>6. CASE Forward(c)
    BY <1>1, <1>6, ForwardWindow
  <1>7. CASE Unsubscribe(c)
    <2>1. cpc'[c] = "closed" /\ start'[c] = start[c] /\ received'[c] = received[c]
      BY <1>7 DEF Unsubscribe, TypeInv, TypeOK
    <2> QED
      BY <1>1, <2>1 DEF Window, Sent, Looping
  <1>8. CASE Expire(c) \/ Leave(c) \/ LoadJob(c)
    BY <1>1, <1>8, WindowFrame DEF Expire, Leave, LoadJob, socket
  <1> QED
    BY <1>3, <1>4, <1>5, <1>6, <1>7, <1>8 DEF ClientNext, LoopStep

LEMMA NextWindow == TypeInv /\ WindowInv /\ [Next]_vars => WindowInv'
  <1> SUFFICES ASSUME TypeInv, WindowInv, [Next]_vars
               PROVE  WindowInv'
    OBVIOUS
  <1>1. CASE UNCHANGED <<channel, inbox, socket>>
    BY <1>1, WindowFrame DEF WindowInv, socket
  <1> QED
    BY <1>1, TaskWindow, ClientWindow DEF Next, DeleteJob, vars, task

LEMMA WindowInvariant == Spec => []WindowInv
  BY TypeInvariant, InitWindow, NextWindow, PTL DEF Spec

LEMMA SinceIs ==
  ASSUME TypeInv, NEW c \in Client, Sent(c)
  PROVE  /\ Since(c) \in Seq(Message)
         /\ Len(Since(c)) = Len(channel) - start[c]
         /\ \A i \in 1..(Len(channel) - start[c]) : Since(c)[i] = channel[start[c] + i]
  <1>1. start[c] + Len(received[c]) <= Len(channel) /\ Len(channel) \in Nat
    BY Seqs DEF Sent, Matches
  <1>2. start[c] + 1 \in 1..Len(channel) + 1
    BY <1>1, Seqs
  <1> DEFINE s == start[c]
             ch == channel
             w == SubSeq(ch, s + 1, Len(ch))
  <1>3. s \in Nat /\ ch \in Seq(Message) /\ Len(ch) \in Nat /\ s <= Len(ch)
    BY <1>1, Seqs
  <1>4. w \in Seq(Message) /\ Len(w) = Len(ch) - s /\ \A i \in 1..(Len(ch) - s) : w[i] = ch[s + i]
    <2> HIDE DEF s, ch
    <2>1. CASE s = Len(ch)
      BY <1>3, <2>1
    <2>2. CASE s < Len(ch)
      BY <1>3, <2>2
    <2> QED
      BY <1>3, <2>1, <2>2
  <1> QED
    BY <1>4 DEF Since

(* A client that stays sees every message since it subscribed, once and in *)
(* order: while the loop runs nothing is lost between the channel, the     *)
(* inbox and the socket, and when it has ended what was sent is a prefix.  *)
NothingSkipped ==
  \A c \in Client :
    /\ cpc[c] \in Looping => received[c] \o inbox[c] = Since(c)
    /\ IsPrefix(received[c], Since(c))

(* Nothing is skipped, whatever is published and whenever a client         *)
(* subscribes.                                                             *)
THEOREM StreamIsComplete == Spec => []NothingSkipped
  <1>1. TypeInv /\ WindowInv => NothingSkipped
    <2> SUFFICES ASSUME TypeInv, WindowInv, NEW c \in Client
                 PROVE  /\ cpc[c] \in Looping => received[c] \o inbox[c] = Since(c)
                        /\ IsPrefix(received[c], Since(c))
      BY DEF NothingSkipped
    <2>1. Sent(c) /\ (cpc[c] \in Looping => Waiting(c))
      BY DEF WindowInv, Window
    <2>2. ASSUME cpc[c] \in Looping
          PROVE  received[c] \o inbox[c] = Since(c)
      <3> DEFINE r == received[c]
                 q == inbox[c]
                 s == start[c]
                 w == Since(c)
      <3>1. r \in Seq(Message) /\ q \in Seq(Message) /\ s \in Nat /\ channel \in Seq(Message)
        BY Seqs
      <3>2. Matches(channel, s, r) /\ Matches(channel, s + Len(r), q) /\ s + Len(r) + Len(q) = Len(channel)
        BY <2>1, <2>2 DEF Sent, Waiting
      <3>3. /\ w \in Seq(Message) /\ Len(w) = Len(channel) - s
            /\ \A i \in 1..(Len(channel) - s) : w[i] = channel[s + i]
        BY <2>1, SinceIs
      <3> HIDE DEF r, q, s, w
      <3>4. Len(r) \in Nat /\ Len(q) \in Nat /\ Len(channel) \in Nat
        BY <3>1
      <3>5. r \o q \in Seq(Message) /\ Len(r \o q) = Len(w)
        BY <3>1, <3>2, <3>3, <3>4
      <3>6. ASSUME NEW i \in 1..Len(w)
            PROVE  (r \o q)[i] = w[i]
        <4>1. CASE i <= Len(r)
          BY <3>1, <3>2, <3>3, <3>4, <4>1 DEF Matches
        <4>2. CASE i > Len(r)
          <5>1. i - Len(r) \in 1..Len(q) /\ (r \o q)[i] = q[i - Len(r)]
            BY <3>1, <3>2, <3>3, <3>4, <4>2
          <5>2. q[i - Len(r)] = channel[s + Len(r) + (i - Len(r))]
            BY <3>2, <5>1 DEF Matches
          <5>3. s + Len(r) + (i - Len(r)) = s + i /\ i \in 1..(Len(channel) - s)
            BY <3>1, <3>3, <3>4
          <5> QED
            BY <3>3, <5>1, <5>2, <5>3
        <4>3. Len(w) \in Int /\ Len(r) \in Int
          BY <3>1, <3>3, <3>4
        <4>4. i \in Int
          BY <4>3
        <4>5. i <= Len(r) \/ i > Len(r)
          BY <4>3, <4>4
        <4> QED
          BY <4>1, <4>2, <4>5, Zenon
      <3>7. r \o q = w
        BY <3>3, <3>5, <3>6, SeqEqual
      <3> QED
        BY <3>7 DEF r, q, w
    <2>3. IsPrefix(received[c], Since(c))
      <3>1. Len(received[c]) <= Len(channel) - start[c]
        BY <2>1, Seqs DEF Sent, Matches
      <3>2. \A i \in 1..Len(received[c]) : received[c][i] = Since(c)[i]
        BY <2>1, <3>1, Seqs, SinceIs DEF Sent, Matches
      <3>3. received[c] = SubSeq(Since(c), 1, Len(received[c]))
        BY <2>1, <3>1, <3>2, Seqs, SinceIs
      <3> QED
        BY <2>1, <3>1, <3>3, SinceIs DEF IsPrefix
    <2> QED
      BY <2>2, <2>3
  <1> QED
    BY <1>1, TypeInvariant, WindowInvariant, PTL
-----------------------------------------------------------------------------
(* The sentinel of an execution is its last message, published when its    *)
(* handler is closed; a line on the channel is decided, or its execution   *)
(* stands between the two halves of emit.                                  *)

InHand(m) == epc[m[1]] = "persist" /\ m = <<m[1], line[m[1]]>>

SentinelLast ==
  \A i \in 1..Len(channel) : IsComplete(channel[i]) =>
    /\ epc[channel[i][1]] = "closed"
    /\ \A j \in (i + 1)..Len(channel) : channel[j][1] # channel[i][1]

LinesDecided ==
  exists => \A i \in 1..Len(channel) :
    IsComplete(channel[i]) \/ channel[i] \in stored \cup dropped \/ InHand(channel[i])

SentinelInv == SentinelLast /\ LinesDecided

LEMMA InitSentinel == Init => SentinelInv
  BY DEF Init, SentinelInv, SentinelLast, LinesDecided

LEMMA OnChannel ==
  ASSUME TypeInv
  PROVE  /\ Len(channel) \in Nat
         /\ \A i \in 1..Len(channel) :
              channel[i] \in Message /\ channel[i][1] \in Exec
              /\ channel[i] = <<channel[i][1], channel[i][2]>>
  BY DEF TypeInv, TypeOK, Message

(* A step that publishes nothing.                                          *)
LEMMA SentinelFrame ==
  ASSUME TypeInv, SentinelInv, channel' = channel,
         \A f \in Exec : epc[f] = "closed" => epc'[f] = "closed",
         exists' => exists /\ stored \subseteq stored' /\ dropped \subseteq dropped',
         \A f \in Exec : epc[f] = "persist" =>
           \/ epc'[f] = "persist" /\ line'[f] = line[f]
           \/ <<f, line[f]>> \in stored' \cup dropped'
  PROVE  SentinelInv'
  <1>1. SentinelLast'
    BY OnChannel DEF SentinelInv, SentinelLast, IsComplete
  <1>2. LinesDecided'
    <2> SUFFICES ASSUME exists', NEW i \in 1..Len(channel), ~ IsComplete(channel[i])
                 PROVE  channel[i] \in stored' \cup dropped' \/ InHand(channel[i])'
      BY DEF LinesDecided, IsComplete, InHand
    <2>1. channel[i] \in stored \cup dropped \/ InHand(channel[i])
      BY DEF SentinelInv, LinesDecided
    <2>2. CASE InHand(channel[i])
      BY <2>2, OnChannel DEF InHand
    <2> QED
      BY <2>1, <2>2
  <1> QED
    BY <1>1, <1>2 DEF SentinelInv

(* An execution with an attached handler publishes m.                      *)
LEMMA SentinelAppend ==
  ASSUME TypeInv, SentinelInv, NEW e \in Exec, NEW m \in Message, m[1] = e,
         channel' = Append(channel, m), epc[e] = "attached", UNCHANGED db,
         \A f \in Exec \ {e} : epc'[f] = epc[f] /\ line'[f] = line[f],
         IsComplete(m) => epc'[e] = "closed",
         ~ IsComplete(m) => epc'[e] = "persist" /\ m = <<e, line'[e]>>
  PROVE  SentinelInv'
  <1>1. /\ Len(channel') = Len(channel) + 1
        /\ \A i \in 1..Len(channel) : channel'[i] = channel[i]
        /\ channel'[Len(channel) + 1] = m
    BY OnChannel DEF TypeInv, TypeOK
  <1>2. ASSUME NEW i \in 1..Len(channel')
        PROVE  (i \in 1..Len(channel) /\ channel'[i] = channel[i]) \/ (i = Len(channel) + 1 /\ channel'[i] = m)
    BY <1>1, OnChannel
  <1>3. SentinelLast'
    <2> SUFFICES ASSUME NEW i \in 1..Len(channel'), IsComplete(channel'[i])
                 PROVE  /\ epc'[channel'[i][1]] = "closed"
                        /\ \A j \in (i + 1)..Len(channel') : channel'[j][1] # channel'[i][1]
      BY DEF SentinelLast, IsComplete
    <2>1. CASE i \in 1..Len(channel) /\ channel'[i] = channel[i]
      <3>1. epc[channel[i][1]] = "closed" /\ channel[i][1] \in Exec \ {e}
        BY <2>1, OnChannel DEF SentinelInv, SentinelLast
      <3>2. ASSUME NEW j \in (i + 1)..Len(channel')
            PROVE  channel'[j][1] # channel[i][1]
        <4>1. j \in 1..Len(channel')
          BY <2>1, <1>1, OnChannel
        <4>2. CASE j \in 1..Len(channel) /\ channel'[j] = channel[j]
          <5>1. j \in (i + 1)..Len(channel)
            BY <4>2, <2>1, OnChannel
          <5> QED
            BY <2>1, <4>2, <5>1 DEF SentinelInv, SentinelLast
        <4>3. CASE channel'[j] = m
          BY <3>1, <4>3
        <4> QED
          BY <1>2, <4>1, <4>2, <4>3
      <3> QED
        BY <2>1, <3>1, <3>2
    <2>2. CASE i = Len(channel) + 1 /\ channel'[i] = m
      <3>1. (i + 1)..Len(channel') = {}
        BY <2>2, <1>1, OnChannel
      <3> QED
        BY <2>2, <3>1
    <2> QED
      BY <1>2, <2>1, <2>2
  <1>4. LinesDecided'
    <2> SUFFICES ASSUME exists', NEW i \in 1..Len(channel'), ~ IsComplete(channel'[i])
                 PROVE  channel'[i] \in stored' \cup dropped' \/ InHand(channel[i])'
      BY DEF LinesDecided, IsComplete
    <2>1. CASE i \in 1..Len(channel) /\ channel'[i] = channel[i]
      <3>1. channel[i] \in stored \cup dropped \/ InHand(channel[i])
        BY <2>1 DEF SentinelInv, LinesDecided, IsComplete, db
      <3>2. CASE InHand(channel[i])
        <4>1. channel[i][1] \in Exec \ {e}
          BY <3>2, <2>1, OnChannel DEF InHand
        <4> QED
          BY <3>2, <4>1, <2>1 DEF InHand
      <3> QED
        BY <3>1, <3>2, <2>1 DEF db
    <2>2. CASE i = Len(channel) + 1 /\ channel'[i] = m
      BY <2>2 DEF InHand, IsComplete
    <2> QED
      BY <1>2, <2>1, <2>2
  <1> QED
    BY <1>3, <1>4 DEF SentinelInv

LEMMA TaskSentinel ==
  ASSUME TypeInv, SentinelInv, NEW e \in Exec, TaskNext(e)
  PROVE  SentinelInv'
  <1>1. CASE Attach(e)
    <2>1. epc[e] = "waiting" /\ \A f \in Exec \ {e} : epc'[f] = epc[f]
      BY <1>1 DEF Attach, TypeInv, TypeOK
    <2> QED
      BY <1>1, <2>1, SentinelFrame DEF Attach, db
  <1>2. CASE PublishLine(e)
    <2>1. line[e] + 1 \in 1..MaxLines /\ line'[e] = line[e] + 1
      BY <1>2, MaxLinesAssumption DEF PublishLine, TypeInv, TypeOK
    <2>2. <<e, line[e] + 1>> \in Message /\ ~ IsComplete(<<e, line[e] + 1>>)
      BY <2>1, Messages DEF IsComplete
    <2>3. epc'[e] = "persist" /\ \A f \in Exec \ {e} : epc'[f] = epc[f] /\ line'[f] = line[f]
      BY <1>2 DEF PublishLine, TypeInv, TypeOK
    <2> QED
      BY <1>2, <2>1, <2>2, <2>3, SentinelAppend DEF PublishLine, Publish
  <1>3. CASE PublishFails(e)
    <2>1. epc[e] = "attached" /\ \A f \in Exec \ {e} : line'[f] = line[f]
      BY <1>3 DEF PublishFails, TypeInv, TypeOK
    <2> QED
      BY <1>3, <2>1, SentinelFrame DEF PublishFails
  <1>4. CASE Persist(e)
    <2>1. epc[e] = "persist" /\ \A f \in Exec \ {e} : epc'[f] = epc[f]
      BY <1>4 DEF Persist, TypeInv, TypeOK
    <2>2. <<e, line[e]>> \in stored' \cup dropped' /\ stored \subseteq stored' /\ dropped \subseteq dropped'
      BY <1>4 DEF Persist
    <2> QED
      BY <1>4, <2>1, <2>2, SentinelFrame DEF Persist
  <1>5. CASE CloseHandler(e)
    <2>1. epc[e] = "attached" /\ epc'[e] = "closed" /\ \A f \in Exec \ {e} : epc'[f] = epc[f]
      BY <1>5 DEF CloseHandler, TypeInv, TypeOK
    <2>2. CASE UNCHANGED channel
      BY <1>5, <2>1, <2>2, SentinelFrame DEF CloseHandler, db
    <2>3. CASE Publish(<<e, Complete>>)
      BY <1>5, <2>1, <2>3, Messages, SentinelAppend DEF CloseHandler, Publish, IsComplete
    <2> QED
      BY <1>5, <2>2, <2>3 DEF CloseHandler
  <1>6. CASE Killed(e)
    <2>1. \A f \in Exec \ {e} : epc'[f] = epc[f]
      BY <1>6 DEF Killed, TypeInv, TypeOK
    <2>2. epc[e] # "closed" /\ dropped \subseteq dropped' /\ (epc[e] = "persist" => <<e, line[e]>> \in dropped')
      BY <1>6 DEF Killed
    <2> QED
      BY <1>6, <2>1, <2>2, SentinelFrame DEF Killed
  <1> QED
    BY <1>1, <1>2, <1>3, <1>4, <1>5, <1>6 DEF TaskNext

LEMMA NextSentinel == TypeInv /\ SentinelInv /\ [Next]_vars => SentinelInv'
  <1> SUFFICES ASSUME TypeInv, SentinelInv, [Next]_vars
               PROVE  SentinelInv'
    OBVIOUS
  <1>1. CASE UNCHANGED <<task, db>>
    BY <1>1, SentinelFrame DEF task, db
  <1>2. ASSUME NEW c \in Client, ClientNext(c)
        PROVE  UNCHANGED <<task, db>>
    BY <1>2 DEF ClientNext, AcceptSocket, Subscribe, CheckDeadline, LoopStep, NoMessage, Forward,
           RedisFails, Unsubscribe, Expire, Leave, LoadJob
  <1>3. CASE DeleteJob
    BY <1>3, SentinelFrame DEF DeleteJob, task
  <1> QED
    BY <1>1, <1>2, <1>3, TaskSentinel DEF Next, vars

LEMMA SentinelInvariant == Spec => []SentinelInv
  BY TypeInvariant, InitSentinel, NextSentinel, PTL DEF Spec

(* After the sentinel nothing of the execution is to come, on the channel  *)
(* or in the database.                                                     *)
THEOREM SentinelIsFinal == Spec => []CompleteIsFinal
  <1>1. TypeInv /\ WindowInv /\ SentinelInv => CompleteIsFinal
    <2> SUFFICES ASSUME TypeInv, WindowInv, SentinelInv, NEW c \in Client, NEW e \in Exec,
                        <<e, Complete>> \in Range(received[c])
                 PROVE  /\ \A m \in Range(Since(c)) : m[1] = e => m \in Range(received[c])
                        /\ exists => \A m \in Range(received[c]) :
                             m[1] = e /\ ~ IsComplete(m) => m \in stored \cup dropped
      BY DEF CompleteIsFinal
    <2> DEFINE r == received[c]
               s == start[c]
    <2>1. /\ r \in Seq(Message) /\ Len(r) \in Nat /\ s \in Nat /\ Len(channel) \in Nat
          /\ s + Len(r) <= Len(channel) /\ \A i \in 1..Len(r) : r[i] = channel[s + i]
      BY Seqs, OnChannel DEF WindowInv, Window, Sent, Matches
    <2>2. Range(r) = {r[i] : i \in 1..Len(r)}
      BY <2>1 DEF Range
    <2>3. PICK k \in 1..Len(r) : <<e, Complete>> = r[k]
      BY <2>2
    <2>4. s + k \in 1..Len(channel) /\ channel[s + k] = <<e, Complete>>
      BY <2>1, <2>3
    <2>5. epc[e] = "closed" /\ \A j \in (s + k + 1)..Len(channel) : channel[j][1] # e
      BY <2>4 DEF SentinelInv, SentinelLast, IsComplete
    <2>6. ASSUME NEW m \in Range(Since(c)), m[1] = e
          PROVE  m \in Range(r)
      <3>1. PICK i \in 1..(Len(channel) - s) : m = channel[s + i]
        <4>1. Range(Since(c)) = {Since(c)[i] : i \in 1..Len(Since(c))}
          BY SinceIs DEF Range, WindowInv, Window
        <4> QED
          BY <4>1, SinceIs DEF WindowInv, Window
      <3>2. CASE i <= Len(r)
        <4>1. i \in 1..Len(r)
          BY <2>1, <3>2
        <4>2. m = r[i]
          BY <2>1, <3>1, <4>1
        <4> QED
          BY <2>2, <4>1, <4>2
      <3>3. CASE i > Len(r)
        <4>1. s + i \in (s + k + 1)..Len(channel)
          BY <2>1, <3>3
        <4> QED
          BY <2>5, <2>6, <3>1, <4>1
      <3> QED
        BY <2>1, <3>2, <3>3
    <2>7. ASSUME exists, NEW m \in Range(r), m[1] = e, ~ IsComplete(m)
          PROVE  m \in stored \cup dropped
      <3>1. PICK i \in 1..Len(r) : m = r[i]
        BY <2>2
      <3>2. s + i \in 1..Len(channel) /\ m = channel[s + i]
        BY <2>1, <3>1
      <3> QED
        BY <2>5, <2>7, <3>2 DEF SentinelInv, LinesDecided, InHand
    <2> QED
      BY <2>6, <2>7
  <1> QED
    BY <1>1, TypeInvariant, WindowInvariant, SentinelInvariant, PTL

-----------------------------------------------------------------------------
(* The step of LogPromise that each step implements.                       *)

(* While the handler of an execution is not closed, what it has put on the *)
(* channel are lines it has logged.                                        *)
OrderInv ==
  \A i \in 1..Len(channel) :
    epc[channel[i][1]] # "closed" => channel[i][2] <= line[channel[i][1]]

LEMMA InitOrder == Init => OrderInv
  BY DEF Init, OrderInv

(* A step that publishes nothing.                                          *)
LEMMA OrderFrame ==
  ASSUME TypeInv, TypeInv', OrderInv, channel' = channel,
         \A f \in Exec : (epc[f] = "closed" => epc'[f] = "closed") /\ line[f] <= line'[f]
  PROVE  OrderInv'
  <1> SUFFICES ASSUME NEW i \in 1..Len(channel), epc'[channel[i][1]] # "closed"
               PROVE  channel[i][2] <= line'[channel[i][1]]
    BY DEF OrderInv
  <1> DEFINE e == channel[i][1]
             n == channel[i][2]
  <1>1. e \in Exec /\ n \in Nat
    BY DEF TypeInv, TypeOK, Message, Complete
  <1>2. n <= line[e] /\ line[e] <= line'[e]
    BY <1>1 DEF OrderInv
  <1>3. line[e] \in Nat /\ line'[e] \in Nat
    BY <1>1, MaxLinesAssumption DEF TypeInv, TypeOK
  <1> QED
    BY <1>1, <1>2, <1>3

(* e publishes its line or its sentinel number n: a step of the promise.   *)
LEMMA Publishes ==
  ASSUME TypeInv, TypeInv', OrderInv, NEW e \in Exec, NEW n \in 1..Complete, Publish(<<e, n>>), UNCHANGED socket,
         epc[e] = "attached", line[e] < n,
         \A f \in Exec \ {e} : epc'[f] = epc[f] /\ line'[f] = line[f],
         epc'[e] = "closed" \/ n <= line'[e]
  PROVE  OrderInv' /\ Promise!Write(e, n)
  <1>0. /\ \A i \in 1..Len(channel) : channel[i][2] \in Nat
        /\ n \in Nat /\ line[e] \in Nat /\ line'[e] \in Nat
    <2>1. Complete \in Nat
      BY MaxLinesAssumption DEF Complete
    <2>2. \A i \in 1..Len(channel) : channel[i][2] \in 1..Complete
      BY DEF TypeInv, TypeOK, Message
    <2>3. line[e] \in 0..MaxLines /\ line'[e] \in 0..MaxLines
      BY DEF TypeInv, TypeOK
    <2> QED
      BY <2>1, <2>2, <2>3, MaxLinesAssumption
  <1>1. /\ Len(channel') = Len(channel) + 1
        /\ \A i \in 1..Len(channel) : channel'[i] = channel[i]
        /\ channel'[Len(channel) + 1] = <<e, n>>
    BY OnChannel DEF Publish, TypeInv, TypeOK
  <1>2. ASSUME NEW i \in 1..Len(channel), channel[i][1] = e
        PROVE  channel[i][2] < n
    <2>1. channel[i][2] <= line[e]
      BY <1>2 DEF OrderInv
    <2> QED
      BY <1>0, <2>1
  <1>3. OrderInv'
    <2> SUFFICES ASSUME NEW i \in 1..Len(channel'), epc'[channel'[i][1]] # "closed"
                 PROVE  channel'[i][2] <= line'[channel'[i][1]]
      BY DEF OrderInv
    <2>1. CASE i = Len(channel) + 1
      BY <1>1, <2>1
    <2>2. CASE i \in 1..Len(channel)
      <3>1. CASE channel[i][1] = e
        <4>1. channel[i][2] < n /\ n <= line'[e]
          BY <1>1, <1>2, <2>2, <3>1
        <4> QED
          BY <1>0, <1>1, <2>2, <3>1, <4>1
      <3>2. CASE channel[i][1] # e
        BY <1>1, <2>2, <3>2, OnChannel DEF OrderInv
      <3> QED
        BY <3>1, <3>2
    <2> QED
      BY <1>1, <2>1, <2>2, OnChannel
  <1>4. [c \in Client |-> Watch(c)]' = [c \in Client |-> Watch(c)]
    BY DEF Watch, socket
  <1>5. Promise!Write(e, n)
    BY <1>2, <1>4 DEF Promise!Write, Publish, socket
  <1> QED
    BY <1>3, <1>5

LEMMA TaskKeeps ==
  ASSUME TypeInv, TypeInv', OrderInv, NEW e \in Exec, TaskNext(e)
  PROVE  OrderInv' /\ [Promise!Next]_(Promise!vars)
  <1>1. Complete = MaxLines + 1 /\ MaxLines \in Nat /\ line[e] \in 0..MaxLines
    BY MaxLinesAssumption DEF Complete, TypeInv, TypeOK
  <1>2. UNCHANGED socket
    BY DEF TaskNext, Attach, PublishLine, PublishFails, Persist, CloseHandler, Killed
  <1>3. \A f \in Exec : line[f] \in Nat /\ line[f] <= line[f]
    BY MaxLinesAssumption DEF TypeInv, TypeOK
  <1>4. CASE channel' = channel
    <2>1. \A f \in Exec : epc[f] = "closed" => epc'[f] = "closed"
      BY DEF TaskNext, Attach, PublishLine, PublishFails, Persist, CloseHandler, Killed, TypeInv, TypeOK
    <2>2. \A f \in Exec : line[f] <= line'[f]
      <3>1. line' = line \/ line' = [line EXCEPT ![e] = @ + 1]
        BY DEF TaskNext, Attach, PublishLine, PublishFails, Persist, CloseHandler, Killed
      <3>2. CASE line' = line
        BY <1>3, <3>2
      <3>3. CASE line' = [line EXCEPT ![e] = @ + 1]
        <4>1. line'[e] = line[e] + 1 /\ \A f \in Exec \ {e} : line'[f] = line[f]
          BY <3>3 DEF TypeInv, TypeOK
        <4> QED
          BY <1>3, <4>1
      <3> QED
        BY <3>1, <3>2, <3>3
    <2>3. OrderInv'
      BY <1>4, <2>1, <2>2, OrderFrame
    <2>4. UNCHANGED Promise!vars
      BY <1>2, <1>4 DEF Promise!vars, Watch, socket
    <2> QED
      BY <2>3, <2>4
  <1>5. CASE PublishLine(e)
    <2> DEFINE n == line[e] + 1
    <2>1. n \in 1..Complete /\ line[e] < n /\ epc[e] = "attached" /\ Publish(<<e, n>>)
      BY <1>1, <1>5 DEF PublishLine
    <2>2. line'[e] = n /\ \A f \in Exec \ {e} : epc'[f] = epc[f] /\ line'[f] = line[f]
      BY <1>5 DEF PublishLine, TypeInv, TypeOK
    <2>3. n <= line'[e]
      BY <1>1, <2>2
    <2> HIDE DEF n
    <2>4. OrderInv' /\ Promise!Write(e, n)
      BY <1>2, <2>1, <2>2, <2>3, Publishes
    <2> QED
      BY <2>1, <2>4 DEF Promise!Next
  <1>6. CASE CloseHandler(e) /\ Publish(<<e, Complete>>)
    <2>1. Complete \in 1..Complete /\ line[e] < Complete /\ epc[e] = "attached"
      BY <1>1, <1>6 DEF CloseHandler
    <2>2. epc'[e] = "closed" /\ \A f \in Exec \ {e} : epc'[f] = epc[f] /\ line'[f] = line[f]
      BY <1>6 DEF CloseHandler, TypeInv, TypeOK
    <2>3. OrderInv' /\ Promise!Write(e, Complete)
      BY <1>2, <1>6, <2>1, <2>2, Publishes
    <2> QED
      BY <2>1, <2>3 DEF Promise!Next
  <1> QED
    BY <1>4, <1>5, <1>6 DEF TaskNext, Attach, PublishFails, Persist, CloseHandler, Killed

(* A handler's step changes how its own client watches, if anyone does.    *)
Watching == [c \in Client |-> Watch(c)]

LEMMA WatchStep ==
  ASSUME TypeInv, NEW c \in Client, NEW s, cpc' = [cpc EXCEPT ![c] = s], NEW w, Watch(c)' = w
  PROVE  Watching' = [Watching EXCEPT ![c] = w]
  <1>1. ASSUME NEW d \in Client \ {c} PROVE Watch(d)' = Watch(d)
    <2>1. cpc'[d] = cpc[d]
      BY DEF TypeInv, TypeOK
    <2> QED
      BY <2>1 DEF Watch
  <1> QED
    BY <1>1 DEF Watching

LEMMA CutsOff ==
  ASSUME TypeInv, NEW c \in Client, cpc[c] \in {"accepted"} \cup Looping, cpc' = [cpc EXCEPT ![c] = "finally"],
         UNCHANGED <<channel, start, received>>
  PROVE  Promise!CutOff(c)
  <1>1. Watch(c)' = "after" /\ Watch(c) # "after"
    BY DEF Watch, Looping, TypeInv, TypeOK
  <1>2. Watching' = [Watching EXCEPT ![c] = "after"]
    BY <1>1, WatchStep
  <1> QED
    BY <1>1, <1>2 DEF Promise!CutOff, Watching

LEMMA SameWatch ==
  ASSUME TypeInv, NEW c \in Client, NEW s, cpc' = [cpc EXCEPT ![c] = s], Watch(c)' = Watch(c),
         UNCHANGED <<channel, start, received>>
  PROVE  UNCHANGED Promise!vars
  <1>1. Watching' = Watching
    BY DEF Watching, Watch, TypeInv, TypeOK
  <1> QED
    BY <1>1 DEF Promise!vars, Watching

(* The message that is forwarded is the next one on the channel.           *)
LEMMA Sees ==
  ASSUME TypeInv, WindowInv, NEW c \in Client, Forward(c), c \notin gone
  PROVE  Promise!See(c)
  <1> DEFINE i == start[c] + Len(received[c]) + 1
             m == Head(inbox[c])
  <1>1. cpc[c] = "poll" /\ inbox[c] # <<>> /\ Sent(c) /\ Waiting(c) /\ Watch(c) = "during"
    BY DEF Forward, WindowInv, Window, Watch, Looping
  <1>2. i <= Len(channel) /\ m = channel[i]
    <2>1. inbox[c] \in Seq(Message) /\ Len(inbox[c]) >= 1 /\ m = inbox[c][1] /\ Len(channel) \in Nat
      BY <1>1, Seqs
    <2> QED
      BY <1>1, <2>1, Seqs DEF Waiting, Matches
  <1>3. received' = [received EXCEPT ![c] = Append(@, channel[i])] /\ UNCHANGED <<channel, start>>
    BY <1>2 DEF Forward, task
  <1>4. CASE IsComplete(m)
    <2>1. cpc' = [cpc EXCEPT ![c] = "finally"] /\ channel[i][2] = Complete
      BY <1>2, <1>4 DEF Forward, End, IsComplete
    <2>2. Watch(c)' = "after"
      BY <2>1 DEF Watch, Looping, TypeInv, TypeOK
    <2>3. Watching' = [Watching EXCEPT ![c] = "after"]
      BY <2>1, <2>2, WatchStep
    <2> QED
      BY <1>1, <1>2, <1>3, <2>1, <2>3 DEF Promise!See, Watching
  <1>5. CASE ~ IsComplete(m)
    <2>1. cpc' = [cpc EXCEPT ![c] = "check"] /\ channel[i][2] # Complete
      BY <1>2, <1>5 DEF Forward, End, IsComplete
    <2>2. Watching' = Watching
      BY <1>1, <2>1 DEF Watching, Watch, Looping, TypeInv, TypeOK
    <2> QED
      BY <1>1, <1>2, <1>3, <2>1, <2>2 DEF Promise!See, Watching
  <1> QED
    BY <1>4, <1>5

LEMMA ClientKeeps ==
  ASSUME TypeInv, WindowInv, NEW c \in Client, ClientNext(c)
  PROVE  [Promise!Next]_(Promise!vars)
  <1>1. CASE AcceptSocket(c)
    <2>1. Watch(c)' = Watch(c)
      BY <1>1 DEF AcceptSocket, Watch, Looping, TypeInv, TypeOK
    <2> QED
      BY <1>1, <2>1, SameWatch DEF AcceptSocket, task
  <1>2. CASE Subscribe(c)
    <2>1. Watch(c) = "before" /\ Watch(c)' = "during"
      BY <1>2 DEF Subscribe, Watch, Looping, TypeInv, TypeOK
    <2>2. Watching' = [Watching EXCEPT ![c] = "during"]
      BY <1>2, <2>1, WatchStep DEF Subscribe
    <2>3. Promise!Join(c)
      BY <1>2, <2>1, <2>2 DEF Promise!Join, Subscribe, Watching, task
    <2> QED
      BY <2>3 DEF Promise!Next
  <1>3. CASE CheckDeadline(c) /\ expired[c]
    <2>1. Promise!CutOff(c)
      BY <1>3, CutsOff DEF CheckDeadline, End, Looping, task
    <2> QED
      BY <2>1 DEF Promise!Next
  <1>4. CASE CheckDeadline(c) /\ ~ expired[c]
    <2>1. Watch(c)' = Watch(c) /\ cpc' = [cpc EXCEPT ![c] = "poll"]
      BY <1>4 DEF CheckDeadline, Watch, Looping, TypeInv, TypeOK
    <2> QED
      BY <1>4, <2>1, SameWatch DEF CheckDeadline, task
  <1>5. CASE NoMessage(c)
    <2>1. Watch(c)' = Watch(c)
      BY <1>5 DEF NoMessage, Watch, Looping, TypeInv, TypeOK
    <2> QED
      BY <1>5, <2>1, SameWatch DEF NoMessage, task
  <1>6. CASE Forward(c) /\ c \notin gone
    BY <1>6, Sees DEF Promise!Next
  <1>7. CASE Forward(c) /\ c \in gone
    <2>1. Promise!CutOff(c)
      BY <1>7, CutsOff DEF Forward, End, Looping, task
    <2> QED
      BY <2>1 DEF Promise!Next
  <1>8. CASE RedisFails(c)
    <2>1. Promise!CutOff(c)
      BY <1>8, CutsOff DEF RedisFails, End, Looping, task
    <2> QED
      BY <2>1 DEF Promise!Next
  <1>9. CASE Unsubscribe(c)
    <2>1. Watch(c)' = Watch(c)
      BY <1>9 DEF Unsubscribe, Watch, Looping, TypeInv, TypeOK
    <2> QED
      BY <1>9, <2>1, SameWatch DEF Unsubscribe, task
  <1>10. CASE Expire(c) \/ Leave(c) \/ LoadJob(c)
    <2>1. UNCHANGED <<cpc, channel, start, received>>
      BY <1>10 DEF Expire, Leave, LoadJob, task, socket
    <2> QED
      BY <2>1 DEF Promise!vars, Watch
  <1> QED
    BY <1>1, <1>2, <1>3, <1>4, <1>5, <1>6, <1>7, <1>8, <1>9, <1>10 DEF ClientNext, LoopStep

LEMMA OrderStays ==
  ASSUME TypeInv, TypeInv', OrderInv, UNCHANGED <<epc, line, channel>>
  PROVE  OrderInv'
  BY DEF OrderInv

LEMMA NextKeeps ==
  ASSUME TypeInv, TypeInv', WindowInv, OrderInv, [Next]_vars
  PROVE  OrderInv' /\ [Promise!Next]_(Promise!vars)
  <1>1. CASE UNCHANGED <<task, socket>>
    <2>1. UNCHANGED Promise!vars
      BY <1>1 DEF Promise!vars, Watch, task, socket
    <2> QED
      BY <1>1, <2>1, OrderStays DEF task
  <1>2. ASSUME NEW c \in Client, ClientNext(c)
        PROVE  OrderInv' /\ [Promise!Next]_(Promise!vars)
    <2>1. UNCHANGED task
      BY <1>2 DEF ClientNext, AcceptSocket, Subscribe, CheckDeadline, LoopStep, NoMessage, Forward,
             RedisFails, Unsubscribe, Expire, Leave, LoadJob
    <2> QED
      BY <1>2, <2>1, ClientKeeps, OrderStays DEF task
  <1> QED
    BY <1>1, <1>2, TaskKeeps DEF Next, DeleteJob, vars

LEMMA InitKeeps == Init => Promise!Init
  BY DEF Init, Promise!Init, Watch, Looping

(* The log stream implements LogPromise, for any executions, clients and   *)
(* number of lines: whatever overlaps and fails, a client is sent a piece  *)
(* of one log, without a gap and ending at a sentinel at the latest, and   *)
(* the log keeps the lines of every execution in order.                    *)
THEOREM ImplementsPromise == Spec => KeepsPromise
  <1>1. TypeInv /\ TypeInv' /\ WindowInv /\ OrderInv /\ [Next]_vars =>
          OrderInv' /\ [Promise!Next]_(Promise!vars)
    BY NextKeeps
  <1> QED
    BY <1>1, TypeInvariant, WindowInvariant, InitOrder, InitKeeps, PTL DEF Spec, KeepsPromise, Promise!Spec
=============================================================================
