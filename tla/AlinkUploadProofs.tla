------------------------- MODULE AlinkUploadProofs -------------------------
(***************************************************************************)
(* What MCAlinkUpload checks for three connections, two uploading threads  *)
(* and two messages, for any number of each.                               *)
(***************************************************************************)
EXTENDS AlinkUpload, SequenceTheorems, TLAPS

NoRepeats(q) == \A i, j \in 1..Len(q) : q[i] = q[j] => i = j

-----------------------------------------------------------------------------
(***************************************************************************)
(* Send lists.                                                             *)
(***************************************************************************)
\* alink_package_connect_send adds c at the end and keeps the rest.
LEMMA ConnectFacts ==
  ASSUME NEW q \in Seq(Clients), NEW c \in Clients, NoRepeats(q),
         NEW r, r = alink_package_connect_send(q, c)
  PROVE  /\ r \in Seq(Clients) /\ NoRepeats(r)
         /\ \A d \in Clients : Contains(r, d) <=> Contains(q, d) \/ d = c
         /\ r # <<>>
         /\ q # <<>> => r[1] = q[1]
         /\ q = <<>> => r[1] = c
<1>1. CASE Contains(q, c)
  BY <1>1 DEF alink_package_connect_send, Contains
<1>2. CASE ~Contains(q, c)
  <2>1. r = Append(q, c)
    BY <1>2 DEF alink_package_connect_send
  <2>2. r \in Seq(Clients) /\ Len(r) = Len(q) + 1 /\ r[Len(q) + 1] = c /\ r # <<>>
    BY <2>1
  <2>3. \A i \in 1..Len(q) : r[i] = q[i]
    BY <2>1
  <2>4. \A i \in 1..Len(q) : q[i] # c
    BY <1>2 DEF Contains
  <2>5. NoRepeats(r)
    <3> SUFFICES ASSUME NEW i \in 1..Len(r), NEW j \in 1..Len(r), r[i] = r[j] PROVE i = j
      BY <2>2 DEF NoRepeats
    <3>1. CASE i \in 1..Len(q) /\ j \in 1..Len(q)
      BY <3>1, <2>3 DEF NoRepeats
    <3>2. CASE i = Len(q) + 1 \/ j = Len(q) + 1
      BY <3>2, <2>2, <2>3, <2>4
    <3> QED BY <3>1, <3>2, <2>2
  <2>6. \A d \in Clients : Contains(r, d) <=> Contains(q, d) \/ d = c
    <3> TAKE d \in Clients
    <3>1. ASSUME Contains(q, d) PROVE Contains(r, d)
      BY <3>1, <2>2, <2>3 DEF Contains
    <3>2. ASSUME d = c PROVE Contains(r, d)
      BY <3>2, <2>2 DEF Contains
    <3>3. ASSUME Contains(r, d), d # c PROVE Contains(q, d)
      BY <3>3, <2>2, <2>3 DEF Contains
    <3> QED BY <3>1, <3>2, <3>3
  <2>7. (q # <<>> => r[1] = q[1]) /\ (q = <<>> => r[1] = c)
    BY <2>2, <2>3
  <2> QED BY <2>2, <2>5, <2>6, <2>7
<1> QED BY <1>1, <1>2

\* alink_package_disconnect_send takes c out; the others stay, in the same order,
\* if c is not the first.
LEMMA DisconnectFacts ==
  ASSUME NEW q \in Seq(Clients), NEW c \in Clients, NoRepeats(q),
         NEW r, r = alink_package_disconnect_send(q, c)
  PROVE  /\ r \in Seq(Clients) /\ NoRepeats(r)
         /\ \A d \in Clients : Contains(r, d) => Contains(q, d) /\ d # c
         /\ q # <<>> /\ q[1] # c =>
              /\ r # <<>> /\ r[1] = q[1]
              /\ \A d \in Clients : Contains(q, d) /\ d # c => Contains(r, d)
<1>1. CASE ~Contains(q, c)
  <2>1. r = q
    BY <1>1 DEF alink_package_disconnect_send
  <2> QED BY <2>1, <1>1
<1>2. CASE Contains(q, c)
  <2> DEFINE k == CHOOSE j \in DOMAIN q : q[j] = c
  <2>1. k \in 1..Len(q) /\ q[k] = c
    BY <1>2 DEF Contains
  <2>2. r = IF k = 1 THEN <<>> ELSE RemoveAt(q, k)
    BY <1>2 DEF alink_package_disconnect_send
  <2> HIDE DEF k
  <2>3. \A i \in 1..Len(q) : q[i] = c => i = k
    BY <2>1 DEF NoRepeats
  <2>4. CASE k = 1
    BY <2>1, <2>2, <2>4 DEF Contains, NoRepeats
  <2>5. CASE k # 1
    <3> DEFINE t == SubSeq(q, 1, k - 1) \o SubSeq(q, k + 1, Len(q))
    <3>1. r = t
      BY <2>2, <2>5 DEF RemoveAt
    <3> DEFINE a == SubSeq(q, 1, k - 1)
               b == SubSeq(q, k + 1, Len(q))
    <3>a. a \in Seq(Clients) /\ Len(a) = k - 1 /\ \A i \in 1..(k - 1) : a[i] = q[i]
      BY <2>1, SubSeqProperties
    <3>b. b \in Seq(Clients) /\ Len(b) = Len(q) - k /\ \A i \in 1..(Len(q) - k) : b[i] = q[k + i]
      <4>1. \A i \in (k + 1)..Len(q) : q[i] \in Clients
        BY <2>1
      <4>2. k + 1 \in Int /\ Len(q) \in Int
        BY <2>1
      <4>3. /\ b \in Seq(Clients) /\ Len(b) = IF k + 1 <= Len(q) THEN Len(q) - (k + 1) + 1 ELSE 0
            /\ \A i \in 1..(Len(q) - (k + 1) + 1) : b[i] = q[(k + 1) + i - 1]
        BY <4>1, <4>2, SubSeqProperties
      <4>4. Len(b) = Len(q) - k
        BY <4>3, <2>1
      <4>5. ASSUME NEW i \in 1..(Len(q) - k) PROVE b[i] = q[k + i]
        <5>1. i \in 1..(Len(q) - (k + 1) + 1) /\ (k + 1) + i - 1 = k + i
          BY <4>2, <2>1
        <5>2. b[i] = q[(k + 1) + i - 1]
          BY <4>3, <5>1
        <5> QED BY <5>1, <5>2
      <4> QED BY <4>3, <4>4, <4>5
    <3> HIDE DEF a, b
    <3>c. /\ t \in Seq(Clients) /\ Len(t) = Len(a) + Len(b)
          /\ \A i \in 1..(Len(a) + Len(b)) : t[i] = IF i <= Len(a) THEN a[i] ELSE b[i - Len(a)]
      BY <3>a, <3>b, ConcatProperties DEF a, b
    <3> HIDE DEF t
    <3>2. t \in Seq(Clients) /\ Len(t) = Len(q) - 1
      BY <2>1, <3>a, <3>b, <3>c
    <3>3. \A i \in 1..(Len(q) - 1) : t[i] = IF i < k THEN q[i] ELSE q[i + 1]
      <4> TAKE i \in 1..(Len(q) - 1)
      <4>1. CASE i < k
        <5>1. i \in 1..(k - 1) /\ i \in 1..(Len(a) + Len(b)) /\ i <= Len(a)
          BY <4>1, <2>1, <3>a, <3>b
        <5>2. t[i] = a[i]
          BY <5>1, <3>c
        <5> QED BY <4>1, <5>1, <5>2, <3>a
      <4>2. CASE ~(i < k)
        <5>1. i - Len(a) \in 1..(Len(q) - k) /\ k + (i - Len(a)) = i + 1
          BY <4>2, <2>1, <3>a
        <5>2. i \in 1..(Len(a) + Len(b)) /\ ~(i <= Len(a))
          BY <4>2, <2>1, <3>a, <3>b
        <5>3. t[i] = b[i - Len(a)]
          BY <5>2, <3>c
        <5>4. b[i - Len(a)] = q[k + (i - Len(a))]
          BY <5>1, <3>b
        <5> QED BY <4>2, <5>1, <5>3, <5>4
      <4> QED BY <4>1, <4>2
    <3>4. NoRepeats(t)
      <4> SUFFICES ASSUME NEW i \in 1..(Len(q) - 1), NEW j \in 1..(Len(q) - 1), t[i] = t[j]
                   PROVE  i = j
        BY <3>2 DEF NoRepeats
      <4>1. PICK u \in 1..Len(q) : t[i] = q[u] /\ u = IF i < k THEN i ELSE i + 1
        BY <3>3, <2>1
      <4>2. PICK v \in 1..Len(q) : t[j] = q[v] /\ v = IF j < k THEN j ELSE j + 1
        BY <3>3, <2>1
      <4>3. q[u] = q[v]
        BY <4>1, <4>2
      <4>4. u = v
        BY <4>3 DEF NoRepeats
      <4> QED BY <4>1, <4>2, <4>4, <2>1
    <3>5. \A d \in Clients : Contains(t, d) => Contains(q, d) /\ d # c
      <4> SUFFICES ASSUME NEW d \in Clients, NEW i \in 1..(Len(q) - 1), t[i] = d
                   PROVE  Contains(q, d) /\ d # c
        BY <3>2 DEF Contains
      <4>1. CASE i < k
        BY <4>1, <3>3, <2>1, <2>3 DEF Contains
      <4>2. CASE ~(i < k)
        <5>1. t[i] = q[i + 1] /\ i + 1 \in 1..Len(q) /\ i + 1 # k
          BY <4>2, <3>3, <2>1
        <5> QED BY <5>1, <2>3 DEF Contains
      <4> QED BY <4>1, <4>2
    <3>6. \A d \in Clients : Contains(q, d) /\ d # c => Contains(t, d)
      <4> SUFFICES ASSUME NEW d \in Clients, NEW i \in 1..Len(q), q[i] = d, d # c
                   PROVE  Contains(t, d)
        BY DEF Contains
      <4>1. CASE i < k
        <5>1. i \in 1..(Len(q) - 1) /\ t[i] = d
          BY <4>1, <3>3, <2>1
        <5> QED BY <5>1, <3>2 DEF Contains
      <4>2. CASE i > k
        <5>1. i - 1 \in 1..(Len(q) - 1) /\ t[i - 1] = d
          BY <4>2, <3>3, <2>1
        <5> QED BY <5>1, <3>2 DEF Contains
      <4> QED BY <4>1, <4>2, <2>1
    <3>7. t # <<>> /\ t[1] = q[1]
      BY <2>1, <2>5, <3>2, <3>3
    <3> QED BY <3>1, <3>2, <3>4, <3>5, <3>6, <3>7
  <2> QED BY <2>4, <2>5
<1> QED BY <1>1, <1>2

\* psNext of an element is the end of the list or another element.
LEMMA NextFacts ==
  ASSUME NEW q \in Seq(Clients), NEW c \in Clients, Contains(q, c)
  PROVE  /\ psNext(q, c) \in Clients \cup {NoClient}
         /\ psNext(q, c) # NoClient => Contains(q, psNext(q, c))
<1> DEFINE k == CHOOSE j \in DOMAIN q : q[j] = c
<1>1. k \in 1..Len(q) /\ q[k] = c
  BY DEF Contains
<1>2. psNext(q, c) = IF k = Len(q) THEN NoClient ELSE q[k + 1]
  BY DEF psNext
<1> HIDE DEF k
<1>3. k # Len(q) => k + 1 \in 1..Len(q)
  BY <1>1
<1> QED BY <1>2, <1>3 DEF Contains

-----------------------------------------------------------------------------
(***************************************************************************)
(* The inductive invariant.                                                *)
(***************************************************************************)
\* Progress of creator and thread belong together; the permanent connection
\* neither leaves nor, once start-up is over, is still being subscribed.
LifeInv ==
  /\ \A c \in Clients :
       /\ thread[c] = "none" => made[c] = 0
       /\ thread[c] \in {"none", "connecting", "connected"} => left[c] = 0
       /\ thread[c] \in {"deleting", "unlinking"} => made[c] >= UserSet /\ started
  /\ permanent # NoClient =>
       /\ thread[permanent] \in {"connecting", "connected"}
       /\ started => made[permanent] = RootSet

\* A list holds a connection at most once, and only while it is entitled to it.
ListInv ==
  \A m \in Messages :
    /\ NoRepeats(subs[m])
    /\ \A c \in Clients : Contains(subs[m], c) => Entitled(c, m)

\* A thread in the middle of an upload owns the mutex and stands in the list.
SenderInv ==
  \A s \in Senders : sender[s].pc \in {"walking", "sending"} =>
    /\ mutex = s
    /\ sender[s].at # NoClient => Contains(subs[sender[s].msg], sender[s].at)
    /\ sender[s].pc = "sending" => sender[s].at # NoClient

\* Nobody was dropped before start-up was over, nor from a list that the
\* permanent connection heads.
CompleteInv == \A m \in Messages : ~started \/ Headed(m) => Complete(m)

UploadInv == UploadTypeOK /\ LifeInv /\ ListInv /\ SenderInv /\ CompleteInv

\* What a step leaves behind: a list the permanent connection heads.
HeadsKept == \A m \in Messages : Headed(m) => Headed(m)'

\* The invariant holds when alink_init has run and nothing is connected yet.
LEMMA UploadInitInv == UploadInit => UploadInv
<1> SUFFICES ASSUME UploadInit PROVE UploadInv
  OBVIOUS
<1> USE UploadAssumption DEF UploadInit, Messages, UserSet, RootSet
<1>1. UploadTypeOK
  <2>1. 0 \in 0..RootSet /\ 0 \in 0..MessageCount /\ 0 \in 0..(ConnectTime - 1) /\ 1 \in Messages
    OBVIOUS
  <2>2. sender \in [Senders -> [pc  : {"idle", "locking", "walking", "sending"},
                               msg : Messages, at : Clients \cup {NoClient}]]
    BY <2>1 DEF Idle, Upload
  <2>3. subs \in [Messages -> Seq(Clients)]
    OBVIOUS
  <2> QED BY <2>1, <2>2, <2>3 DEF UploadTypeOK
<1>2. LifeInv
  BY DEF LifeInv
<1>3. ListInv
  BY DEF ListInv, NoRepeats, Contains
<1>4. SenderInv
  BY DEF SenderInv, Idle, Upload
<1>5. CompleteInv
  BY DEF CompleteInv, Complete, Entitled
<1> QED BY <1>1, <1>2, <1>3, <1>4, <1>5 DEF UploadInv

\* A subscription or its withdrawal is made while no upload holds the mutex.
LEMMA NobodyWalks ==
  ASSUME SenderInv, mutex = NoSender
  PROVE  \A s \in Senders : sender[s].pc \notin {"walking", "sending"}
BY UploadAssumption DEF SenderInv

\* c2_network_create subscribes the connection to its next message.
LEMMA ConnectSendInv ==
  ASSUME UploadInv, NEW c \in Clients, ConnectSend(c)
  PROVE  UploadInv' /\ HeadsKept
<1> USE UploadAssumption
<1> DEFINE n == made[c] + 1
           r == alink_package_connect_send(subs[n], c)
<1>0. UploadTypeOK /\ LifeInv /\ ListInv /\ SenderInv /\ CompleteInv
  BY DEF UploadInv
<1>1. n \in Messages /\ subs[n] \in Seq(Clients) /\ NoRepeats(subs[n])
  BY <1>0 DEF ConnectSend, Messages, UploadTypeOK, ListInv
<1>2. /\ r \in Seq(Clients) /\ NoRepeats(r)
      /\ \A d \in Clients : Contains(r, d) <=> Contains(subs[n], d) \/ d = c
      /\ r # <<>>
      /\ subs[n] # <<>> => r[1] = subs[n][1]
      /\ subs[n] = <<>> => r[1] = c
  <2> DEFINE q == subs[n]
  <2>1. r = alink_package_connect_send(q, c)
    OBVIOUS
  <2>2. q \in Seq(Clients) /\ NoRepeats(q)
    BY <1>1
  <2> HIDE DEF r, q
  <2> SUFFICES /\ r \in Seq(Clients) /\ NoRepeats(r)
               /\ \A d \in Clients : Contains(r, d) <=> Contains(q, d) \/ d = c
               /\ r # <<>>
               /\ q # <<>> => r[1] = q[1]
               /\ q = <<>> => r[1] = c
    BY DEF q
  <2> QED BY <2>1, <2>2, ConnectFacts
<1>3. /\ subs' = [subs EXCEPT ![n] = r]
      /\ made' = [made EXCEPT ![c] = n]
      /\ mutex = NoSender /\ thread[c] # "none" /\ made[c] < MessageCount
      /\ UNCHANGED <<thread, left, fails, permanent, started, mutex, sender, dead>>
  BY DEF ConnectSend
<1> HIDE DEF n, r
<1>4. thread[c] \in {"connecting", "connected"} /\ left[c] = 0
  <2>1. made[c] \in Int /\ MessageCount \in Int
    BY <1>0 DEF UploadTypeOK, RootSet
  <2>2. ~(made[c] >= UserSet)
    BY <2>1, <1>3 DEF UserSet
  <2>3. thread[c] \in {"none", "connecting", "connected", "deleting", "unlinking"}
    BY <1>0 DEF UploadTypeOK
  <2> QED BY <2>2, <2>3, <1>0, <1>3 DEF LifeInv
<1>5. n = made[c] + 1
  BY DEF n
<1>6. UploadTypeOK'
  <2>1. n \in 0..RootSet
    BY <1>0, <1>1 DEF Messages, RootSet
  <2>2. made' \in [Clients -> 0..RootSet]
    BY <2>1, <1>0, <1>3 DEF UploadTypeOK
  <2>3. subs' \in [Messages -> Seq(Clients)]
    BY <1>0, <1>1, <1>2, <1>3 DEF UploadTypeOK
  <2> QED BY <2>2, <2>3, <1>0, <1>3 DEF UploadTypeOK
<1>7. LifeInv'
  BY <1>0, <1>3, <1>4, <1>5 DEF LifeInv, UploadTypeOK, RootSet, UserSet
<1>8. \A m \in Messages : subs'[m] = IF m = n THEN r ELSE subs[m]
  BY <1>0, <1>1, <1>3 DEF UploadTypeOK
<1>9. \A d \in Clients, m \in Messages :
        Entitled(d, m)' <=> Entitled(d, m) \/ (d = c /\ m = n)
  <2> TAKE d \in Clients, m \in Messages
  <2>1. CASE d # c
    BY <2>1, <1>0, <1>3 DEF Entitled, UploadTypeOK
  <2>2. CASE d = c
    <3>1. made[c] \in Int /\ m \in Int /\ m > 0
      BY <1>0 DEF UploadTypeOK, RootSet, Messages
    <3>2. made'[c] = made[c] + 1 /\ thread'[c] = thread[c] /\ left'[c] = 0
      BY <1>0, <1>3, <1>4, <1>5 DEF UploadTypeOK
    <3> QED BY <3>1, <3>2, <2>2, <1>4, <1>5 DEF Entitled
  <2> QED BY <2>1, <2>2
<1>10. ListInv'
  BY <1>0, <1>2, <1>8, <1>9 DEF ListInv
<1>11. SenderInv'
  BY <1>0, <1>3, NobodyWalks DEF SenderInv
<1>12. CompleteInv'
  <2> SUFFICES ASSUME NEW m \in Messages, ~started \/ Headed(m)', NEW d \in Clients, Entitled(d, m)'
               PROVE  Contains(subs'[m], d)
    BY <1>3 DEF CompleteInv, Complete
  <2>1. CASE m # n
    <3>1. Headed(m)' <=> Headed(m)
      BY <2>1, <1>3, <1>8 DEF Headed
    <3> QED BY <2>1, <3>1, <1>0, <1>8, <1>9 DEF CompleteInv, Complete
  <2>2. CASE m = n /\ d = c
    BY <2>2, <1>2, <1>8
  <2>3. CASE m = n /\ d # c
    <3>1. ~started \/ Headed(m)
      <4>1. CASE subs[m] # <<>>
        BY <4>1, <2>3, <1>2, <1>3, <1>8 DEF Headed
      <4>2. CASE subs[m] = <<>>
        <5>1. Headed(m)' => c = permanent
          BY <4>2, <2>3, <1>2, <1>3, <1>8 DEF Headed
        <5>2. c = permanent => ~started
          BY <1>0, <1>3 DEF LifeInv, UploadTypeOK, RootSet
        <5> QED BY <5>1, <5>2
      <4> QED BY <4>1, <4>2
    <3>2. Contains(subs[m], d)
      BY <3>1, <2>3, <1>0, <1>9 DEF CompleteInv, Complete
    <3> QED BY <3>2, <2>3, <1>2, <1>8
  <2> QED BY <2>1, <2>2, <2>3
<1>13. HeadsKept
  BY <1>2, <1>3, <1>8 DEF HeadsKept, Headed
<1> QED BY <1>6, <1>7, <1>10, <1>11, <1>12, <1>13 DEF UploadInv

\* c2_network_cbk_delete withdraws the connection from its next message.
LEMMA DisconnectSendInv ==
  ASSUME UploadInv, NEW c \in Clients, DisconnectSend(c)
  PROVE  UploadInv' /\ HeadsKept
<1> USE UploadAssumption
<1> DEFINE n == left[c] + 1
           r == alink_package_disconnect_send(subs[n], c)
<1>0. UploadTypeOK /\ LifeInv /\ ListInv /\ SenderInv /\ CompleteInv
  BY DEF UploadInv
<1>1. n \in Messages /\ subs[n] \in Seq(Clients) /\ NoRepeats(subs[n])
  BY <1>0 DEF DisconnectSend, Messages, UploadTypeOK, ListInv
<1>2. /\ r \in Seq(Clients) /\ NoRepeats(r)
      /\ \A d \in Clients : Contains(r, d) => Contains(subs[n], d) /\ d # c
      /\ subs[n] # <<>> /\ subs[n][1] # c =>
           /\ r # <<>> /\ r[1] = subs[n][1]
           /\ \A d \in Clients : Contains(subs[n], d) /\ d # c => Contains(r, d)
  <2> DEFINE q == subs[n]
  <2>1. r = alink_package_disconnect_send(q, c)
    OBVIOUS
  <2>2. q \in Seq(Clients) /\ NoRepeats(q)
    BY <1>1
  <2> HIDE DEF r, q
  <2> SUFFICES /\ r \in Seq(Clients) /\ NoRepeats(r)
               /\ \A d \in Clients : Contains(r, d) => Contains(q, d) /\ d # c
               /\ q # <<>> /\ q[1] # c =>
                    /\ r # <<>> /\ r[1] = q[1]
                    /\ \A d \in Clients : Contains(q, d) /\ d # c => Contains(r, d)
    BY DEF q
  <2> QED BY <2>1, <2>2, DisconnectFacts
<1>3. /\ subs' = [subs EXCEPT ![n] = r]
      /\ left' = [left EXCEPT ![c] = n]
      /\ mutex = NoSender /\ thread[c] = "deleting" /\ left[c] < MessageCount
      /\ UNCHANGED <<thread, made, fails, permanent, started, mutex, sender, dead>>
  BY DEF DisconnectSend
<1> HIDE DEF n, r
<1>4. c # permanent /\ started
  BY <1>0, <1>3 DEF LifeInv
<1>5. n = left[c] + 1
  BY DEF n
<1>6. UploadTypeOK'
  <2>1. n \in 0..MessageCount
    BY <1>0, <1>1 DEF Messages
  <2>2. left' \in [Clients -> 0..MessageCount]
    BY <2>1, <1>0, <1>3 DEF UploadTypeOK
  <2>3. subs' \in [Messages -> Seq(Clients)]
    BY <1>0, <1>1, <1>2, <1>3 DEF UploadTypeOK
  <2> QED BY <2>2, <2>3, <1>0, <1>3 DEF UploadTypeOK
<1>7. LifeInv'
  BY <1>0, <1>3 DEF LifeInv, UploadTypeOK
<1>8. \A m \in Messages : subs'[m] = IF m = n THEN r ELSE subs[m]
  BY <1>0, <1>1, <1>3 DEF UploadTypeOK
<1>9. \A d \in Clients, m \in Messages :
        Entitled(d, m)' <=> Entitled(d, m) /\ ~(d = c /\ m = n)
  <2>0. left \in [Clients -> 0..MessageCount] /\ n \in Nat /\ left[c] \in Nat
    BY <1>0, <1>1 DEF UploadTypeOK, Messages
  <2> SUFFICES ASSUME NEW d \in Clients, NEW m \in Messages
               PROVE  Entitled(d, m)' <=> Entitled(d, m) /\ ~(d = c /\ m = n)
    OBVIOUS
  <2>1. thread' = thread /\ made' = made
    BY <1>3
  <2>2. CASE d = c
    <3>1. left'[d] = n /\ left[d] + 1 = n
      BY <1>3, <1>5, <2>0, <2>2
    <3>2. left'[d] < m <=> left[d] < m /\ m # n
      BY <2>0, <2>2, <3>1 DEF Messages
    <3> QED BY <2>1, <2>2, <3>2 DEF Entitled
  <2>3. CASE d # c
    <3>1. left'[d] = left[d]
      BY <1>3, <2>0, <2>3
    <3> QED BY <2>1, <2>3, <3>1 DEF Entitled
  <2> QED BY <2>2, <2>3
<1>10. ListInv'
  <2> SUFFICES ASSUME NEW m \in Messages
               PROVE  /\ NoRepeats(subs'[m])
                      /\ \A d \in Clients : Contains(subs'[m], d) => Entitled(d, m)'
    BY DEF ListInv
  <2>1. CASE m = n
    <3>1. subs'[m] = r /\ NoRepeats(r)
      BY <1>2, <1>8, <2>1
    <3>2. \A d \in Clients : Contains(r, d) => Entitled(d, m) /\ d # c
      BY <1>0, <1>2, <2>1 DEF ListInv
    <3> QED BY <1>9, <3>1, <3>2
  <2>2. CASE m # n
    <3>1. subs'[m] = subs[m]
      BY <1>8, <2>2
    <3> QED BY <1>0, <1>9, <2>2, <3>1 DEF ListInv
  <2> QED BY <2>1, <2>2
<1>11. SenderInv'
  BY <1>0, <1>3, NobodyWalks DEF SenderInv
<1>12. ASSUME NEW m \in Messages PROVE Headed(m)' => m # n \/ subs[m][1] # c
  <2>1. CASE m = n /\ subs[m][1] = c
    <3>1. subs[m] # <<>> => 1 \in 1..Len(subs[m])
      BY <1>1, <2>1
    <3>2. Headed(m)' => Contains(r, permanent) /\ permanent \in Clients
      BY <2>1, <1>2, <1>3, <1>8 DEF Headed, Contains
    <3>3. ~Headed(m)'
      <4> SUFFICES ASSUME Headed(m)' PROVE FALSE
        OBVIOUS
      <4>1. r = <<>>
        <5>1. Contains(subs[n], permanent)
          BY <3>2, <1>2
        <5>2. Len(subs[n]) >= 1 /\ Contains(subs[n], c)
          BY <5>1, <2>1, <1>1 DEF Contains
        <5>3. \A j \in DOMAIN subs[n] : subs[n][j] = c => j = 1
          BY <5>2, <2>1, <1>1 DEF NoRepeats
        <5> QED BY <5>2, <5>3, <2>1, <1>1 DEF r, alink_package_disconnect_send, Contains
      <4> QED BY <4>1, <2>1, <1>8 DEF Headed
    <3> QED BY <3>3
  <2> QED BY <2>1
<1>13. ASSUME NEW m \in Messages PROVE Headed(m)' => Headed(m)
  <2>1. CASE m # n
    BY <2>1, <1>3, <1>8 DEF Headed
  <2>2. CASE m = n /\ subs[n] # <<>> /\ subs[n][1] # c
    BY <2>2, <1>2, <1>3, <1>8 DEF Headed
  <2>3. CASE m = n /\ subs[n] = <<>>
    <3>1. ~Contains(subs[n], c)
      BY <2>3 DEF Contains
    <3>2. r = <<>>
      BY <3>1, <2>3 DEF r, alink_package_disconnect_send
    <3> QED BY <3>2, <2>3, <1>8 DEF Headed
  <2> QED BY <2>1, <2>2, <2>3, <1>12
<1>14. CompleteInv'
  <2> SUFFICES ASSUME NEW m \in Messages, Headed(m)', NEW d \in Clients, Entitled(d, m)'
               PROVE  Contains(subs'[m], d)
    BY <1>3, <1>4 DEF CompleteInv, Complete
  <2>1. Headed(m) /\ Contains(subs[m], d)
    BY <1>0, <1>9, <1>13 DEF CompleteInv, Complete
  <2>2. CASE m # n
    BY <2>1, <2>2, <1>8
  <2>3. CASE m = n
    BY <2>1, <2>3, <1>2, <1>4, <1>8, <1>9 DEF Headed
  <2> QED BY <2>2, <2>3
<1>15. ASSUME NEW m \in Messages, Headed(m) PROVE Headed(m)'
  BY <1>15, <1>2, <1>3, <1>4, <1>8 DEF Headed
<1> QED BY <1>6, <1>7, <1>10, <1>11, <1>14, <1>15 DEF UploadInv, HeadsKept
-----------------------------------------------------------------------------
(***************************************************************************)
(* The steps that leave the lists alone.                                   *)
(***************************************************************************)
\* A step of a creator or of a connection's thread outside the mutex.
LEMMA ThreadStep ==
  ASSUME UploadInv, UNCHANGED <<subs, mutex, sender>>, UploadTypeOK', LifeInv',
         started => started',
         \A c \in Clients, m \in Messages : Entitled(c, m)' <=> Entitled(c, m),
         \A m \in Messages : Headed(m)' <=> Headed(m)
  PROVE  UploadInv' /\ HeadsKept
<1>1. ListInv'
  BY DEF UploadInv, ListInv
<1>2. SenderInv'
  BY DEF UploadInv, SenderInv
<1>3. CompleteInv'
  BY DEF UploadInv, CompleteInv, Complete
<1> QED BY <1>1, <1>2, <1>3 DEF UploadInv, HeadsKept

\* A step of alink_upload_send_package.
LEMMA SenderStep ==
  ASSUME UploadInv, UNCHANGED <<thread, made, left, fails, permanent, started, subs>>,
         UploadTypeOK', SenderInv'
  PROVE  UploadInv' /\ HeadsKept
<1>1. LifeInv'
  BY DEF UploadInv, LifeInv
<1>2. \A c \in Clients, m \in Messages : Entitled(c, m)' <=> Entitled(c, m)
  BY DEF Entitled
<1>3. \A m \in Messages : Headed(m)' <=> Headed(m)
  BY DEF Headed
<1>4. ListInv'
  BY <1>2 DEF UploadInv, ListInv
<1>5. CompleteInv'
  BY <1>2, <1>3 DEF UploadInv, CompleteInv, Complete
<1> QED BY <1>1, <1>3, <1>4, <1>5 DEF UploadInv, HeadsKept

\* A connection is created at an address that no list holds.
LEMMA CreateInv ==
  ASSUME UploadInv, NEW c \in Clients, CreatePermanent(c) \/ CreateRequested(c)
  PROVE  UploadInv' /\ HeadsKept
<1> USE UploadAssumption
<1>0. UploadTypeOK /\ LifeInv /\ ListInv
  BY DEF UploadInv
<1>1. /\ thread[c] = "none" /\ thread' = [thread EXCEPT ![c] = "connecting"]
      /\ UNCHANGED <<made, left, fails, subs, mutex, sender, dead, started>>
      /\ \/ permanent = NoClient /\ permanent' = c /\ ~started
         \/ permanent' = permanent
  BY DEF CreatePermanent, CreateRequested, tcp_client_create
<1>2. made[c] = 0 /\ left[c] = 0
  BY <1>0, <1>1 DEF LifeInv
<1>3. UploadTypeOK'
  BY <1>0, <1>1 DEF UploadTypeOK
<1>4. LifeInv'
  BY <1>0, <1>1, <1>2 DEF LifeInv, UploadTypeOK
<1>5. \A d \in Clients, m \in Messages : Entitled(d, m)' <=> Entitled(d, m)
  <2> TAKE d \in Clients, m \in Messages
  <2>1. CASE d # c
    BY <2>1, <1>0, <1>1 DEF Entitled, UploadTypeOK
  <2>2. CASE d = c
    <3>1. ~(0 >= m)
      BY DEF Messages
    <3> QED BY <2>2, <3>1, <1>1, <1>2 DEF Entitled
  <2> QED BY <2>1, <2>2
<1>6. ASSUME NEW m \in Messages PROVE Headed(m)' <=> Headed(m)
  <2>1. CASE permanent' = permanent
    BY <2>1, <1>1 DEF Headed
  <2>2. CASE permanent = NoClient /\ permanent' = c
    <3>1. subs[m] \in Seq(Clients)
      BY <1>0 DEF UploadTypeOK
    <3>2. ~Contains(subs[m], c)
      BY <1>0, <1>1 DEF ListInv, Entitled
    <3>3. subs[m] # <<>> => subs[m][1] \in Clients /\ subs[m][1] # c
      BY <3>1, <3>2 DEF Contains
    <3> QED BY <3>3, <2>2, <1>1 DEF Headed
  <2> QED BY <2>1, <2>2, <1>1
<1> QED BY <1>1, <1>3, <1>4, <1>5, <1>6, ThreadStep

\* The callbacks are set when the subscriptions have been made.
LEMMA SetInv ==
  ASSUME UploadInv, NEW c \in Clients, SetUserCbk(c) \/ SetRoot(c)
  PROVE  UploadInv' /\ HeadsKept
<1> USE UploadAssumption
<1>0. UploadTypeOK /\ LifeInv
  BY DEF UploadInv
<1>1. /\ thread[c] # "none"
      /\ UNCHANGED <<thread, left, fails, permanent, subs, mutex, sender, dead>>
      /\ \/ /\ made[c] = MessageCount /\ made' = [made EXCEPT ![c] = UserSet]
            /\ started' = started
         \/ /\ made[c] = UserSet /\ made' = [made EXCEPT ![c] = RootSet]
            /\ started' = (started \/ c = permanent)
  BY DEF SetUserCbk, SetRoot
<1>a. (started => started') /\ started' \in BOOLEAN
  <2>0. started \in BOOLEAN
    BY <1>0 DEF UploadTypeOK
  <2>1. CASE started' = started
    BY <2>0, <2>1
  <2>2. CASE started' = (started \/ c = permanent)
    BY <2>0, <2>2, Zenon
  <2> QED BY <2>1, <2>2, <1>1
<1>2. UploadTypeOK'
  <2>1. UserSet \in 0..RootSet /\ RootSet \in 0..RootSet
    BY DEF UserSet, RootSet
  <2>2. made' \in [Clients -> 0..RootSet]
    BY <2>1, <1>0, <1>1 DEF UploadTypeOK
  <2> QED BY <2>2, <1>0, <1>1, <1>a DEF UploadTypeOK
<1>3. made[c] < RootSet /\ made'[c] > made[c] /\ made[c] >= MessageCount /\ made'[c] >= UserSet
  BY <1>0, <1>1 DEF UploadTypeOK, UserSet, RootSet
<1>4. \A d \in Clients : d # c => made'[d] = made[d]
  BY <1>0, <1>1 DEF UploadTypeOK
<1>5. LifeInv'
  <2>1. \A d \in Clients :
          /\ thread[d] = "none" => made'[d] = 0
          /\ thread[d] \in {"none", "connecting", "connected"} => left[d] = 0
          /\ thread[d] \in {"deleting", "unlinking"} => made'[d] >= UserSet /\ started'
    BY <1>0, <1>1, <1>a, <1>3, <1>4 DEF LifeInv
  <2>2. ASSUME permanent # NoClient, started'
        PROVE  made'[permanent] = RootSet
    <3>1. CASE started
      <4>1. made[permanent] = RootSet /\ permanent \in Clients
        BY <2>2, <3>1, <1>0 DEF LifeInv, UploadTypeOK
      <4>2. permanent # c
        BY <4>1, <1>3, <1>0 DEF UploadTypeOK
      <4> QED BY <4>1, <4>2, <1>4
    <3>2. CASE ~started
      <4>1. c = permanent /\ made' = [made EXCEPT ![c] = RootSet]
        BY <2>2, <3>2, <1>1
      <4> QED BY <4>1, <1>0 DEF UploadTypeOK
    <3> QED BY <3>1, <3>2
  <2>3. permanent # NoClient => thread[permanent] \in {"connecting", "connected"}
    BY <1>0 DEF LifeInv
  <2> QED BY <2>1, <2>2, <2>3, <1>1 DEF LifeInv
<1>6. \A d \in Clients, m \in Messages : Entitled(d, m)' <=> Entitled(d, m)
  <2> TAKE d \in Clients, m \in Messages
  <2>1. CASE d # c
    BY <2>1, <1>1, <1>4 DEF Entitled
  <2>2. CASE d = c
    <3>1. made[c] \in Int /\ made'[c] \in Int /\ m <= MessageCount /\ m \in Int
      BY <1>0, <1>2 DEF UploadTypeOK, Messages, RootSet
    <3>2. made[c] >= m /\ made'[c] >= m
      BY <3>1, <1>3
    <3> QED BY <3>2, <2>2, <1>1 DEF Entitled
  <2> QED BY <2>1, <2>2
<1>7. \A m \in Messages : Headed(m)' <=> Headed(m)
  BY <1>1 DEF Headed
<1> QED BY <1>1, <1>a, <1>2, <1>5, <1>6, <1>7, ThreadStep

\* The thread connects, loses its connection, retries and gives up.
LEMMA ConnectionInv ==
  ASSUME UploadInv, NEW c \in Clients,
         Connected(c) \/ Disconnected(c) \/ ConnectFails(c) \/ GivesUp(c)
  PROVE  UploadInv' /\ HeadsKept
<1> USE UploadAssumption
<1>0. UploadTypeOK /\ LifeInv
  BY DEF UploadInv
<1>1. UNCHANGED <<made, left, permanent, started, subs, mutex, sender>>
  BY DEF Connected, Disconnected, ConnectFails, GivesUp
<1>2. /\ fails' \in [Clients -> 0..(ConnectTime - 1)]
      /\ dead' \in BOOLEAN
  <2>1. CASE Connected(c)
    BY <2>1, <1>0 DEF Connected, UploadTypeOK
  <2>2. CASE Disconnected(c) \/ GivesUp(c)
    BY <2>2, <1>0 DEF Disconnected, GivesUp, UploadTypeOK
  <2>3. CASE ConnectFails(c)
    <3>1. fails[c] \in Nat /\ wConnectTime(c) > fails[c] + 1
      BY <2>3, <1>0 DEF ConnectFails, UploadTypeOK
    <3>2. fails[c] + 1 \in 0..(ConnectTime - 1)
      BY <3>1 DEF wConnectTime
    <3> QED BY <3>2, <2>3, <1>0 DEF ConnectFails, UploadTypeOK
  <2> QED BY <2>1, <2>2, <2>3
<1>3. \/ thread' = thread
      \/ /\ thread[c] \in {"connecting", "connected"}
         /\ \/ thread' = [thread EXCEPT ![c] = "connecting"]
            \/ thread' = [thread EXCEPT ![c] = "connected"]
      \/ /\ thread[c] = "connecting" /\ c # permanent /\ started /\ made[c] >= UserSet
         /\ thread' = [thread EXCEPT ![c] = "deleting"]
  BY DEF Connected, Disconnected, ConnectFails, GivesUp, wConnectTime
<1>4. UploadTypeOK'
  BY <1>0, <1>1, <1>2, <1>3 DEF UploadTypeOK
<1>5. LifeInv'
  <2>1. CASE thread' = thread
    BY <2>1, <1>0, <1>1 DEF LifeInv
  <2>2. CASE /\ thread[c] \in {"connecting", "connected"}
             /\ \/ thread' = [thread EXCEPT ![c] = "connecting"]
                \/ thread' = [thread EXCEPT ![c] = "connected"]
    BY <2>2, <1>0, <1>1 DEF LifeInv, UploadTypeOK
  <2>3. CASE /\ thread[c] = "connecting" /\ c # permanent /\ started /\ made[c] >= UserSet
             /\ thread' = [thread EXCEPT ![c] = "deleting"]
    BY <2>3, <1>0, <1>1 DEF LifeInv, UploadTypeOK
  <2> QED BY <2>1, <2>2, <2>3, <1>3
<1>6. \A d \in Clients, m \in Messages : Entitled(d, m)' <=> Entitled(d, m)
  BY <1>0, <1>1, <1>3 DEF Entitled, UploadTypeOK
<1>7. \A m \in Messages : Headed(m)' <=> Headed(m)
  BY <1>1 DEF Headed
<1> QED BY <1>1, <1>4, <1>5, <1>6, <1>7, ThreadStep

\* The thread, done with the lists, frees first the context, then the connection.
LEMMA FreeInv ==
  ASSUME UploadInv, NEW c \in Clients, FreeNetwork(c) \/ FreeClient(c)
  PROVE  UploadInv' /\ HeadsKept
<1> USE UploadAssumption
<1>0. UploadTypeOK /\ LifeInv
  BY DEF UploadInv
<1>1. UNCHANGED <<permanent, started, subs, mutex, sender, dead>>
  BY DEF FreeNetwork, FreeClient
<1>2. thread[c] \in {"deleting", "unlinking"} /\ c # permanent
  BY <1>0 DEF FreeNetwork, FreeClient, LifeInv
<1>3. UploadTypeOK'
  <2>1. 0 \in 0..RootSet /\ 0 \in 0..MessageCount /\ 0 \in 0..(ConnectTime - 1)
    BY DEF RootSet
  <2>2. CASE FreeNetwork(c)
    BY <2>2, <1>0 DEF FreeNetwork, UploadTypeOK
  <2>3. CASE FreeClient(c)
    <3>1. /\ made'  \in [Clients -> 0..RootSet]
          /\ left'  \in [Clients -> 0..MessageCount]
          /\ fails' \in [Clients -> 0..(ConnectTime - 1)]
      BY <2>1, <2>3, <1>0 DEF FreeClient, UploadTypeOK
    <3>2. thread' \in [Clients -> {"none", "connecting", "connected", "deleting", "unlinking"}]
      BY <2>3, <1>0 DEF FreeClient, UploadTypeOK
    <3> QED BY <3>1, <3>2, <1>0, <1>1 DEF UploadTypeOK
  <2> QED BY <2>2, <2>3
<1>4. \A d \in Clients : d # c => /\ thread'[d] = thread[d]
                                  /\ made'[d] = made[d] /\ left'[d] = left[d]
  BY <1>0 DEF FreeNetwork, FreeClient, UploadTypeOK
<1>5. \/ /\ thread[c] = "deleting" /\ left[c] = MessageCount
         /\ thread'[c] = "unlinking" /\ made' = made /\ left' = left
      \/ /\ thread[c] = "unlinking"
         /\ thread'[c] = "none" /\ made'[c] = 0 /\ left'[c] = 0
  BY <1>0 DEF FreeNetwork, FreeClient, UploadTypeOK
<1>6. LifeInv'
  <2>1. ASSUME NEW d \in Clients
        PROVE  /\ thread'[d] = "none" => made'[d] = 0
               /\ thread'[d] \in {"none", "connecting", "connected"} => left'[d] = 0
               /\ thread'[d] \in {"deleting", "unlinking"} => made'[d] >= UserSet /\ started
    BY <1>0, <1>2, <1>4, <1>5 DEF LifeInv
  <2>2. permanent # NoClient => /\ thread'[permanent] = thread[permanent]
                                /\ made'[permanent] = made[permanent]
    BY <1>0, <1>2, <1>4 DEF UploadTypeOK
  <2> QED BY <2>1, <2>2, <1>0, <1>1 DEF LifeInv
<1>7. ASSUME NEW d \in Clients, NEW m \in Messages PROVE Entitled(d, m)' <=> Entitled(d, m)
  <2>1. CASE d # c
    BY <2>1, <1>4 DEF Entitled
  <2>2. CASE d = c
    <3>1. ~(MessageCount < m)
      BY DEF Messages
    <3>2. ~Entitled(c, m) /\ ~Entitled(c, m)'
      BY <3>1, <1>5 DEF Entitled
    <3> QED BY <2>2, <3>2
  <2> QED BY <2>1, <2>2
<1>8. \A m \in Messages : Headed(m)' <=> Headed(m)
  BY <1>1 DEF Headed
<1> QED BY <1>1, <1>3, <1>6, <1>7, <1>8, ThreadStep

\* The progress e an upload makes, with the mutex in its hands where it walks.
LEMMA SenderMoves ==
  ASSUME UploadInv, NEW s \in Senders,
         NEW e \in [pc  : {"idle", "locking", "walking", "sending"},
                    msg : Messages, at : Clients \cup {NoClient}],
         UNCHANGED <<thread, made, left, fails, permanent, started, subs, dead>>,
         sender' = [sender EXCEPT ![s] = e],
         e.pc \in {"walking", "sending"} =>
           /\ mutex' = s
           /\ e.at # NoClient => Contains(subs[e.msg], e.at)
           /\ e.pc = "sending" => e.at # NoClient,
         \/ mutex' = mutex
         \/ mutex = NoSender /\ mutex' = s
         \/ mutex = s /\ mutex' = NoSender
  PROVE  UploadInv' /\ HeadsKept
<1> USE UploadAssumption
<1>1. UploadTypeOK'
  BY DEF UploadInv, UploadTypeOK
<1>2. SenderInv'
  <2> SUFFICES ASSUME NEW t \in Senders, sender'[t].pc \in {"walking", "sending"}
               PROVE  /\ mutex' = t
                      /\ sender'[t].at # NoClient => Contains(subs'[sender'[t].msg], sender'[t].at)
                      /\ sender'[t].pc = "sending" => sender'[t].at # NoClient
    BY DEF SenderInv
  <2>1. CASE t = s
    <3>1. sender'[t] = e
      BY <2>1 DEF UploadInv, UploadTypeOK
    <3> QED BY <3>1, <2>1
  <2>2. CASE t # s
    <3>1. sender'[t] = sender[t]
      BY <2>2 DEF UploadInv, UploadTypeOK
    <3>2. mutex = t
      BY <3>1 DEF UploadInv, SenderInv
    <3>3. mutex' = t
      BY <3>2, <2>2
    <3> QED BY <3>1, <3>3 DEF UploadInv, SenderInv
  <2> QED BY <2>1, <2>2
<1> QED BY <1>1, <1>2, SenderStep

\* An upload takes the mutex, walks its list and gives the mutex back.
LEMMA SendInv ==
  ASSUME UploadInv, NEW s \in Senders, alink_upload_send_package(s)
  PROVE  UploadInv' /\ HeadsKept
<1> USE UploadAssumption
<1>0. UploadTypeOK /\ SenderInv
  BY DEF UploadInv
<1> DEFINE Q == subs[sender[s].msg]
           N == psNext(Q, sender[s].at)
           State == [pc  : {"idle", "locking", "walking", "sending"},
                     msg : Messages, at : Clients \cup {NoClient}]
           Frame == UNCHANGED <<thread, made, left, fails, permanent, started, subs, dead>>
<1>1. sender[s] \in State /\ Q \in Seq(Clients) /\ 1 \in Messages
  BY <1>0 DEF UploadTypeOK, Messages
<1>2. sender[s].pc \in {"walking", "sending"} /\ sender[s].at # NoClient =>
        N \in Clients \cup {NoClient} /\ (N # NoClient => Contains(Q, N))
  BY <1>0, <1>1, NextFacts DEF SenderInv
<1>3. Q # <<>> => Q[1] \in Clients /\ Contains(Q, Q[1])
  BY <1>1 DEF Contains
<1>4. ASSUME NEW m \in Messages, UploadPackage(s, m) PROVE UploadInv' /\ HeadsKept
  <2> DEFINE e == [pc |-> "locking", msg |-> m, at |-> NoClient]
  <2>1. e \in State /\ e.pc \notin {"walking", "sending"}
    OBVIOUS
  <2>2. Frame /\ mutex' = mutex /\ sender' = [sender EXCEPT ![s] = e]
    BY <1>4 DEF UploadPackage, Upload
  <2> HIDE DEF e
  <2> QED BY <2>1, <2>2, SenderMoves
<1>5. CASE UploadLock(s)
  <2> DEFINE f == IF Q = <<>> THEN NoClient ELSE Q[1]
             e == [pc |-> "walking", msg |-> sender[s].msg, at |-> f]
  <2>1. e \in State /\ (e.at # NoClient => Contains(subs[e.msg], e.at))
    BY <1>1, <1>3
  <2>2. Frame /\ mutex = NoSender /\ mutex' = s
    BY <1>5 DEF UploadLock
  <2>3. e.pc = "walking" /\ sender' = [sender EXCEPT ![s] = e]
    BY <1>5 DEF UploadLock, Upload
  <2> HIDE DEF e
  <2> QED BY <2>1, <2>2, <2>3, SenderMoves
<1>6. CASE SendTo(s) \/ Sent(s)
  <2> DEFINE e == [pc |-> "walking", msg |-> sender[s].msg, at |-> N]
             g == [pc |-> "sending", msg |-> sender[s].msg, at |-> sender[s].at]
  <2>1. sender[s].pc \in {"walking", "sending"} /\ sender[s].at # NoClient /\ mutex = s
    BY <1>6, <1>0 DEF SendTo, Sent, SenderInv
  <2>2. Frame /\ mutex' = mutex
    BY <1>6 DEF SendTo, Sent
  <2>3. /\ e \in State /\ e.pc = "walking"
        /\ e.at # NoClient => Contains(subs[e.msg], e.at)
    BY <2>1, <1>1, <1>2
  <2>4. /\ g \in State /\ g.pc = "sending" /\ g.at # NoClient
        /\ Contains(subs[g.msg], g.at)
    BY <2>1, <1>0, <1>1 DEF SenderInv
  <2>5. sender' = [sender EXCEPT ![s] = e] \/ sender' = [sender EXCEPT ![s] = g]
    BY <1>6 DEF SendTo, Sent, Upload
  <2> HIDE DEF e, g
  <2>6. CASE sender' = [sender EXCEPT ![s] = e]
    BY <2>1, <2>2, <2>3, <2>6, SenderMoves
  <2>7. CASE sender' = [sender EXCEPT ![s] = g]
    BY <2>1, <2>2, <2>4, <2>7, SenderMoves
  <2> QED BY <2>5, <2>6, <2>7
<1>7. CASE UploadUnlock(s)
  <2>1. Idle \in State /\ Idle.pc = "idle"
    BY <1>1 DEF Idle, Upload
  <2>2. Frame /\ mutex = s /\ mutex' = NoSender /\ sender' = [sender EXCEPT ![s] = Idle]
    BY <1>7, <1>0 DEF UploadUnlock, SenderInv
  <2> QED BY <2>1, <2>2, SenderMoves
<1>8. CASE SendKilled(s)
  <2>1. /\ UNCHANGED <<thread, made, left, fails, permanent, started, subs, sender, mutex>>
        /\ dead' = TRUE
    BY <1>8 DEF SendKilled
  <2>2. UploadTypeOK' /\ SenderInv'
    BY <2>1, <1>0 DEF UploadTypeOK, SenderInv
  <2> QED BY <2>1, <2>2, SenderStep
<1> QED BY <1>4, <1>5, <1>6, <1>7, <1>8 DEF alink_upload_send_package

-----------------------------------------------------------------------------
(***************************************************************************)
(* The theorems.                                                           *)
(***************************************************************************)
\* Every step keeps the invariant, and the permanent connection at the head of
\* the lists it heads.
LEMMA UploadStepInv == UploadInv /\ [UploadNext]_uploadVars => UploadInv' /\ HeadsKept
<1> SUFFICES ASSUME UploadInv, [UploadNext]_uploadVars PROVE UploadInv' /\ HeadsKept
  OBVIOUS
<1>0. UploadTypeOK /\ LifeInv
  BY DEF UploadInv
<1>1. ASSUME \/ UNCHANGED uploadVars \/ NoPermanent
             \/ \E c \in Clients : RootMissing(c)
      PROVE  UploadInv' /\ HeadsKept
  <2>1. /\ UNCHANGED <<thread, made, left, fails, permanent, subs, mutex, sender>>
        /\ \/ started' = started
           \/ started' = TRUE /\ permanent = NoClient
        /\ dead' = dead \/ dead' = TRUE
    BY <1>1 DEF uploadVars, NoPermanent, RootMissing
  <2>2. UploadTypeOK'
    BY <2>1, <1>0 DEF UploadTypeOK
  <2>3. started => started'
    BY <2>1
  <2>4. LifeInv'
    BY <2>1, <2>3, <1>0 DEF LifeInv
  <2>5. \A c \in Clients, m \in Messages : Entitled(c, m)' <=> Entitled(c, m)
    BY <2>1 DEF Entitled
  <2>6. \A m \in Messages : Headed(m)' <=> Headed(m)
    BY <2>1 DEF Headed
  <2> QED BY <2>1, <2>2, <2>3, <2>4, <2>5, <2>6, ThreadStep
<1>2. ASSUME NEW c \in Clients, CreatePermanent(c) \/ CreateRequested(c) PROVE UploadInv' /\ HeadsKept
  BY <1>2, CreateInv
<1>3. ASSUME NEW c \in Clients, Creator(c) PROVE UploadInv' /\ HeadsKept
  BY <1>3, ConnectSendInv, SetInv DEF Creator
<1>4. ASSUME NEW c \in Clients, tcp_client_task(c) \/ FreeClient(c) PROVE UploadInv' /\ HeadsKept
  BY <1>4, <1>1, ConnectionInv, DisconnectSendInv, FreeInv DEF tcp_client_task
<1>5. ASSUME NEW s \in Senders, alink_upload_send_package(s) PROVE UploadInv' /\ HeadsKept
  BY <1>5, SendInv
<1> QED BY <1>1, <1>2, <1>3, <1>4, <1>5 DEF UploadNext

\* The inductive invariant holds of every behaviour of the uploads.
THEOREM UploadInvariant == UploadSpec => []UploadInv
<1>1. UploadInv /\ [UploadNext]_uploadVars => UploadInv'
  BY UploadStepInv
<1> QED BY <1>1, UploadInitInv, PTL DEF UploadSpec

\* Every field of the send lists, connections and uploads stays within its type;
\* in particular no connection is refused ConnectTime times and lives on.
THEOREM UploadTypeCorrect == UploadSpec => []UploadTypeOK
<1>1. UploadInv => UploadTypeOK
  BY DEF UploadInv
<1> QED BY <1>1, UploadInvariant, PTL

\* alink_upload_send_package never finds a freed or withdrawn connection in a
\* list, for any number of connections, messages and uploading threads.
THEOREM SubscribersStayLive == UploadSpec => []SubscribersLive
<1>1. UploadInv => SubscribersLive
  <2> SUFFICES ASSUME UploadInv, NEW m \in Messages, NEW i \in DOMAIN subs[m]
               PROVE  Entitled(subs[m][i], m)
    BY DEF SubscribersLive
  <2>1. subs[m] \in Seq(Clients)
    BY DEF UploadInv, UploadTypeOK
  <2>2. Contains(subs[m], subs[m][i]) /\ subs[m][i] \in Clients
    BY <2>1 DEF Contains
  <2> QED BY <2>2 DEF UploadInv, ListInv
<1> QED BY <1>1, UploadInvariant, PTL

\* Nor does a connection go away while an upload stands at it.
THEOREM SendsStayLive == UploadSpec => []SendsToLive
<1>1. UploadInv => SendsToLive
  <2> SUFFICES ASSUME UploadInv, NEW s \in Senders,
                      sender[s].pc \in {"walking", "sending"}, sender[s].at # NoClient
               PROVE  Entitled(sender[s].at, sender[s].msg)
    BY DEF SendsToLive
  <2>1. sender[s].at \in Clients /\ sender[s].msg \in Messages
    BY DEF UploadInv, UploadTypeOK
  <2>2. Contains(subs[sender[s].msg], sender[s].at)
    BY DEF UploadInv, SenderInv
  <2> QED BY <2>1, <2>2 DEF UploadInv, ListInv
<1> QED BY <1>1, UploadInvariant, PTL

\* The permanent connection keeps the head of a list once it has it, and while it
\* does no withdrawal drops anybody else from that list.
THEOREM NobodyIsDropped == UploadSpec => NobodyDropped
<1>1. /\ UploadInv /\ UploadInv' /\ [UploadNext]_uploadVars
      => [\A m \in Messages : Headed(m) => Headed(m)' /\ Complete(m)']_uploadVars
  <2> SUFFICES ASSUME UploadInv, UploadInv', [UploadNext]_uploadVars, NEW m \in Messages, Headed(m)
               PROVE  Headed(m)' /\ Complete(m)'
    OBVIOUS
  <2>1. Headed(m)'
    BY UploadStepInv DEF HeadsKept
  <2>2. CompleteInv'
    BY DEF UploadInv
  <2> QED BY <2>1, <2>2 DEF CompleteInv, Messages
<1> QED BY <1>1, UploadInvariant, PTL DEF UploadSpec, NobodyDropped
-----------------------------------------------------------------------------
(***************************************************************************)
(* The mutex is given back.                                                *)
(***************************************************************************)
\* Whoever has the mutex is on its way through a list.
HolderInv == mutex # NoSender => sender[mutex].pc \in {"walking", "sending"}

\* One element further along a list without repeats is one element less ahead.
LEMMA AheadFacts ==
  ASSUME NEW q \in Seq(Clients), NEW c \in Clients, Contains(q, c), NoRepeats(q)
  PROVE  /\ Ahead(q, c) \in Nat /\ Ahead(q, c) >= 1
         /\ Ahead(q, psNext(q, c)) = Ahead(q, c) - 1
<1> DEFINE k == CHOOSE j \in DOMAIN q : q[j] = c
<1>1. k \in 1..Len(q) /\ q[k] = c /\ c # NoClient
  BY UploadAssumption DEF Contains
<1>2. psNext(q, c) = IF k = Len(q) THEN NoClient ELSE q[k + 1]
  BY DEF psNext
<1>3. Ahead(q, c) = Len(q) + 1 - k
  BY <1>1 DEF Ahead
<1> HIDE DEF k
<1>4. CASE k = Len(q)
  <2>1. Ahead(q, psNext(q, c)) = 0
    BY <1>2, <1>4 DEF Ahead
  <2> QED BY <1>1, <1>3, <1>4, <2>1
<1>5. CASE k # Len(q)
  <2> DEFINE d == q[k + 1]
             j == CHOOSE i \in DOMAIN q : q[i] = d
  <2>1. k + 1 \in 1..Len(q) /\ d \in Clients /\ d # NoClient
    BY <1>1, <1>5, UploadAssumption
  <2>2. j \in 1..Len(q) /\ q[j] = d
    BY <2>1
  <2>3. Ahead(q, d) = Len(q) + 1 - j
    <3>1. d \in {q[i] : i \in DOMAIN q}
      BY <2>1
    <3> QED BY <2>1, <3>1 DEF Ahead, Contains
  <2> HIDE DEF j
  <2>4. j = k + 1
    BY <2>1, <2>2 DEF NoRepeats
  <2>5. psNext(q, c) = d
    BY <1>2, <1>5
  <2> HIDE DEF d
  <2> QED BY <1>1, <1>3, <2>1, <2>3, <2>4, <2>5
<1> QED BY <1>4, <1>5

\* The mutex is taken to walk a list, and kept until the end of it.
LEMMA HolderStep ==
  ASSUME UploadInv, HolderInv, [UploadNext]_uploadVars
  PROVE  HolderInv'
<1>0. UploadTypeOK
  BY DEF UploadInv
<1>1. ASSUME UNCHANGED <<mutex, sender>> PROVE HolderInv'
  BY <1>1 DEF HolderInv
<1>2. CASE NoPermanent \/ UNCHANGED uploadVars
  BY <1>1, <1>2 DEF NoPermanent, uploadVars
<1>3. ASSUME NEW c \in Clients,
             CreatePermanent(c) \/ CreateRequested(c) \/ Creator(c) \/ FreeClient(c)
      PROVE  HolderInv'
  BY <1>1, <1>3 DEF CreatePermanent, CreateRequested, tcp_client_create, Creator, ConnectSend,
                    SetUserCbk, SetRoot, FreeClient
<1>4. ASSUME NEW c \in Clients, tcp_client_task(c) PROVE HolderInv'
  BY <1>1, <1>4 DEF tcp_client_task, Connected, Disconnected, ConnectFails, GivesUp,
                    DisconnectSend, FreeNetwork, RootMissing
<1>5. ASSUME NEW s \in Senders, alink_upload_send_package(s) PROVE HolderInv'
  <2>1. CASE \E m \in Messages : UploadPackage(s, m)
    <3>1. sender[s].pc = "idle" /\ UNCHANGED mutex /\ \A t \in Senders : t # s => sender'[t] = sender[t]
      BY <1>0, <2>1 DEF UploadPackage, UploadTypeOK
    <3>2. mutex # NoSender => mutex \in Senders /\ mutex # s
      BY <1>0, <3>1 DEF HolderInv, UploadTypeOK
    <3> QED BY <3>1, <3>2 DEF HolderInv
  <2>2. CASE UploadLock(s) \/ SendTo(s) \/ Sent(s)
    <3>1. mutex' = s
      BY <1>5, <2>2 DEF UploadLock, SendTo, Sent, UploadInv, SenderInv
    <3>2. sender'[s].pc \in {"walking", "sending"}
      BY <1>0, <2>2 DEF UploadLock, SendTo, Sent, Upload, UploadTypeOK
    <3> QED BY <3>1, <3>2 DEF HolderInv
  <2>3. CASE SendKilled(s)
    BY <1>1, <2>3 DEF SendKilled
  <2>4. CASE UploadUnlock(s)
    BY <2>4 DEF UploadUnlock, HolderInv
  <2> QED BY <1>5, <2>1, <2>2, <2>3, <2>4 DEF alink_upload_send_package
<1> QED BY <1>2, <1>3, <1>4, <1>5 DEF UploadNext

\* What a step does to the upload that has the mutex.
LEMMA HolderAdvances ==
  ASSUME UploadInv, HolderInv, UploadNext, NEW s \in Senders, mutex = s
  PROVE  UploadLeft(s)' < UploadLeft(s) \/ UNCHANGED <<sender[s], subs>>
<1>0. UploadTypeOK /\ mutex # NoSender /\ sender[s].pc \in {"walking", "sending"}
  BY UploadAssumption DEF UploadInv, HolderInv
<1>1. CASE NoPermanent
  BY <1>1 DEF NoPermanent
<1>2. ASSUME NEW c \in Clients,
             CreatePermanent(c) \/ CreateRequested(c) \/ Creator(c) \/ FreeClient(c)
      PROVE  UNCHANGED <<sender[s], subs>>
  BY <1>0, <1>2 DEF CreatePermanent, CreateRequested, tcp_client_create, Creator, ConnectSend,
                    SetUserCbk, SetRoot, FreeClient
<1>3. ASSUME NEW c \in Clients, tcp_client_task(c) PROVE UNCHANGED <<sender[s], subs>>
  BY <1>0, <1>3 DEF tcp_client_task, Connected, Disconnected, ConnectFails, GivesUp,
                    DisconnectSend, FreeNetwork, RootMissing
<1>4. ASSUME NEW t \in Senders, alink_upload_send_package(t), t # s
      PROVE  UNCHANGED <<sender[s], subs>>
  <2>1. sender[t].pc \notin {"walking", "sending"}
    BY <1>4 DEF UploadInv, SenderInv
  <2>2. \E m \in Messages : UploadPackage(t, m)
    BY <1>0, <1>4, <2>1 DEF alink_upload_send_package, UploadLock, SendTo, Sent, SendKilled,
                            UploadUnlock
  <2> QED BY <1>0, <1>4, <2>2 DEF UploadPackage, UploadTypeOK
<1>5. ASSUME alink_upload_send_package(s)
      PROVE  UploadLeft(s)' < UploadLeft(s) \/ UNCHANGED <<sender[s], subs>>
  <2> DEFINE q == subs[sender[s].msg]
             c == sender[s].at
  <2>1. /\ q \in Seq(Clients) /\ NoRepeats(q)
        /\ c # NoClient => c \in Clients /\ Contains(q, c)
        /\ sender[s].msg \in Messages
    BY <1>0 DEF UploadInv, UploadTypeOK, ListInv, SenderInv
  <2>2. CASE SendTo(s) \/ Sent(s)
    <3>1. c # NoClient /\ UNCHANGED subs
      BY <1>0, <2>2 DEF SendTo, Sent, UploadInv, SenderInv
    <3>2. Ahead(q, c) \in Nat /\ Ahead(q, c) >= 1 /\ Ahead(q, psNext(q, c)) = Ahead(q, c) - 1
      BY <2>1, <3>1, AheadFacts
    <3>3. \/ sender'[s] = [pc |-> "walking", msg |-> sender[s].msg, at |-> psNext(q, c)]
          \/ /\ sender[s].pc = "walking"
             /\ sender'[s] = [pc |-> "sending", msg |-> sender[s].msg, at |-> c]
      BY <1>0, <2>2 DEF SendTo, Sent, Upload, UploadTypeOK
    <3>4. CASE sender'[s] = [pc |-> "walking", msg |-> sender[s].msg, at |-> psNext(q, c)]
      <4>1. UploadLeft(s)' = 2 * Ahead(q, psNext(q, c)) + 1
        BY <3>1, <3>4 DEF UploadLeft
      <4>2. UploadLeft(s) \in {2 * Ahead(q, c), 2 * Ahead(q, c) + 1}
        BY <1>0 DEF UploadLeft
      <4> QED BY <3>2, <4>1, <4>2
    <3>5. CASE /\ sender[s].pc = "walking"
               /\ sender'[s] = [pc |-> "sending", msg |-> sender[s].msg, at |-> c]
      <4>1. UploadLeft(s)' = 2 * Ahead(q, c)
        BY <3>1, <3>5 DEF UploadLeft
      <4>2. UploadLeft(s) = 2 * Ahead(q, c) + 1
        BY <3>5 DEF UploadLeft
      <4> QED BY <3>2, <4>1, <4>2
    <3> QED BY <3>3, <3>4, <3>5
  <2>3. CASE UploadUnlock(s)
    <3>1. sender'[s].pc = "idle" /\ sender[s].pc = "walking" /\ c = NoClient
      BY <1>0, <2>3 DEF UploadUnlock, Idle, Upload, UploadTypeOK
    <3>2. UploadLeft(s)' = 0
      BY <3>1 DEF UploadLeft
    <3>3. UploadLeft(s) = 2 * 0 + 1
      BY <3>1 DEF UploadLeft, Ahead
    <3> QED BY <3>2, <3>3
  <2>4. CASE SendKilled(s)
    BY <2>4 DEF SendKilled
  <2>5. ~(\E m \in Messages : UploadPackage(s, m)) /\ ~UploadLock(s)
    BY <1>0 DEF UploadPackage, UploadLock
  <2> QED BY <1>5, <2>2, <2>3, <2>4, <2>5 DEF alink_upload_send_package
<1> QED BY <1>1, <1>2, <1>3, <1>4, <1>5 DEF UploadNext

\* What WaitersServed rests on besides fairness, for any number of connections and
\* messages: nobody who waits for the mutex waits for an upload that goes on for ever.
THEOREM UploadsAdvance == UploadSpec => UploadAdvances
<1>1. UploadInit => HolderInv
  BY DEF UploadInit, HolderInv
<1>2. UploadInv /\ HolderInv /\ [UploadNext]_uploadVars
        => [\A s \in Senders : mutex = s =>
              UploadLeft(s)' < UploadLeft(s) \/ UNCHANGED <<sender[s], subs>>]_uploadVars
  BY HolderAdvances
<1>3. UploadInv /\ HolderInv /\ [UploadNext]_uploadVars => HolderInv'
  BY HolderStep
<1> QED BY <1>1, <1>2, <1>3, UploadInvariant, PTL DEF UploadSpec, UploadAdvances
=============================================================================
