-------------------------- MODULE NodeClientProofs --------------------------
(***************************************************************************)
(* However many requests overlap on the one socket of the node client,     *)
(* each is answered at most once, by no reply that is newer than its own   *)
(* message, and by its own reply if no messages overlap.                   *)
(***************************************************************************)
EXTENDS NodeClient, SequenceTheorems, TLAPS

\* Who waits for something was not answered, nor was who has not asked.
OpenInv ==
  /\ handlers \cap searching = {}
  /\ \A r \in handlers \cup searching : answers[r] = <<>>
  /\ \A r \in 1..MaxRequests : r > Len(requests) => answers[r] = <<>>

\* Who waits for a message has sent one that was not replied to.
PendingInv ==
  \A r \in handlers : \E j \in DOMAIN sent : sent[j] = r /\ replied < j

\* Without overlaps, one message at most is not replied to.
LockStepInv == ~overlapped => Len(sent) <= replied + 1

\* What may be said of answer a to request r: it was made by a reply that arrived, not
\* by one to a later message, and without overlaps by that to its last message.
GoodAnswer(r, a) ==
  /\ a.message <= replied
  /\ a.message # 0 =>
       /\ \E j \in DOMAIN sent : sent[j] = r /\ a.message <= j
       /\ ~overlapped =>
            /\ sent[a.message] = r
            /\ requests[r] = "add_trs" => r \in tagged \/ ~a.success

AnswerInv ==
  \A r \in DOMAIN requests : \A k \in DOMAIN answers[r] : GoodAnswer(r, answers[r][k])

IInv ==
  TypeOK /\ OpenInv /\ PendingInv /\ LockStepInv /\ AnsweredOnce /\ AnswerInv

\* What is written down stays.
Grows ==
  /\ Len(requests) <= Len(requests')
  /\ \A r \in 1..Len(requests) : requests'[r] = requests[r]
  /\ Len(sent) <= Len(sent')
  /\ \A i \in 1..Len(sent) : sent'[i] = sent[i]
  /\ replied <= replied' /\ tagged \subseteq tagged'
  /\ ~overlapped' => ~overlapped

LEMMA InitIInv == Init => IInv
<1> SUFFICES ASSUME Init PROVE IInv
  OBVIOUS
<1> USE NodeAssumption DEF Init
<1>1. requests \in Seq(Routes) /\ sent \in Seq(1..MaxRequests)
  OBVIOUS
<1>2. \A r \in 1..MaxRequests : answers[r] = <<>>
  OBVIOUS
<1>3. answers \in [1..MaxRequests -> Seq(Answers)]
  <2>1. <<>> \in Seq(Answers)
    OBVIOUS
  <2>2. QED
    BY <2>1
<1>4. Len(requests) = 0 /\ Len(sent) = 0
  OBVIOUS
<1>5. TypeOK
  <2>1. replied \in 0..Len(sent) /\ Len(requests) <= MaxRequests
    BY <1>4
  <2>2. overlapped \in BOOLEAN /\ ended \in BOOLEAN
    OBVIOUS
  <2>3. /\ handlers \subseteq DOMAIN requests /\ tagged \subseteq DOMAIN requests
        /\ searching \subseteq DOMAIN requests
    OBVIOUS
  <2>4. QED
    BY <1>1, <1>3, <2>1, <2>2, <2>3 DEF TypeOK
<1>6. OpenInv /\ AnsweredOnce
  BY <1>2 DEF OpenInv, AnsweredOnce
<1>7. PendingInv /\ LockStepInv /\ AnswerInv
  BY <1>4 DEF PendingInv, LockStepInv, AnswerInv
<1>8. QED
  BY <1>5, <1>6, <1>7 DEF IInv

\* The sequences of the model, as functions on intervals.
LEMMA Domains ==
  ASSUME TypeOK
  PROVE  /\ Len(requests) \in Nat /\ DOMAIN requests = 1..Len(requests)
         /\ DOMAIN requests \subseteq 1..MaxRequests
         /\ Len(sent) \in Nat /\ DOMAIN sent = 1..Len(sent)
         /\ replied \in Nat /\ replied <= Len(sent)
<1>1. Len(requests) \in Nat /\ DOMAIN requests = 1..Len(requests)
  BY LenProperties DEF TypeOK
<1>2. Len(sent) \in Nat /\ DOMAIN sent = 1..Len(sent)
  BY LenProperties DEF TypeOK
<1>3. QED
  BY <1>1, <1>2, NodeAssumption DEF TypeOK

LEMMA DomainsNext ==
  ASSUME TypeOK'
  PROVE  /\ DOMAIN sent' = 1..Len(sent') /\ Len(sent') \in Nat /\ replied' \in Nat
         /\ Len(requests') \in Nat /\ DOMAIN requests' = 1..Len(requests')
<1>1. DOMAIN sent' = 1..Len(sent') /\ Len(sent') \in Nat
  BY LenProperties DEF TypeOK
<1>2. Len(requests') \in Nat /\ DOMAIN requests' = 1..Len(requests')
  BY LenProperties DEF TypeOK
<1>3. QED
  BY <1>1, <1>2 DEF TypeOK

\* A good answer stays one.
LEMMA GoodStays ==
  ASSUME TypeOK, TypeOK', Grows, NEW r \in DOMAIN requests, NEW a \in Answers,
         GoodAnswer(r, a)
  PROVE  GoodAnswer(r, a)'
<1>1. a.message \in Nat
  BY DEF Answers
<1>2. a.message <= replied'
  BY <1>1, Domains, DomainsNext DEF GoodAnswer, Grows
<1>3. ASSUME a.message # 0
      PROVE  \E j \in DOMAIN sent' : sent'[j] = r /\ a.message <= j
  <2>1. PICK j \in DOMAIN sent : sent[j] = r /\ a.message <= j
    BY <1>3 DEF GoodAnswer
  <2>2. j \in DOMAIN sent' /\ sent'[j] = r
    BY <2>1, Domains, DomainsNext DEF Grows
  <2>3. QED
    BY <2>1, <2>2
<1>4. ASSUME a.message # 0, ~overlapped'
      PROVE  /\ sent'[a.message] = r
             /\ requests'[r] = "add_trs" => r \in tagged' \/ ~a.success
  <2>1. a.message \in 1..Len(sent)
    BY <1>1, <1>4, Domains DEF GoodAnswer
  <2>2. QED
    BY <1>4, <2>1, Domains DEF GoodAnswer, Grows
<1>5. QED
  BY <1>2, <1>3, <1>4 DEF GoodAnswer

\* A request sends a message: the list of messages grows at its end.
LEMMA SendAppends ==
  ASSUME TypeOK, NEW r \in 1..MaxRequests, Send(r)
  PROVE  /\ sent' \in Seq(1..MaxRequests)
         /\ Len(sent') = Len(sent) + 1
         /\ \A i \in 1..Len(sent) : sent'[i] = sent[i]
         /\ sent'[Len(sent) + 1] = r
         /\ DOMAIN sent = 1..Len(sent) /\ DOMAIN sent' = 1..(Len(sent) + 1)
         /\ overlapped' \in BOOLEAN
         /\ ~overlapped' => ~overlapped /\ Len(sent) <= replied
<1>1. sent \in Seq(1..MaxRequests) /\ sent' = Append(sent, r)
  BY DEF TypeOK, Send
<1>2. /\ sent' \in Seq(1..MaxRequests)
      /\ Len(sent') = Len(sent) + 1
      /\ \A i \in 1..Len(sent) : sent'[i] = sent[i]
      /\ sent'[Len(sent) + 1] = r
  BY <1>1, AppendProperties
<1>3. DOMAIN sent = 1..Len(sent) /\ DOMAIN sent' = 1..(Len(sent) + 1)
  BY <1>1, <1>2, LenProperties
<1>4. Len(sent) \in Nat /\ replied \in Nat
  BY <1>1, LenProperties DEF TypeOK
<1>5. overlapped \in BOOLEAN /\ overlapped' = (overlapped \/ replied < Len(sent))
  BY DEF Send, TypeOK
<1>6. overlapped' \in BOOLEAN
  BY <1>5, Zenon
<1>7. ~overlapped' => ~overlapped /\ ~(replied < Len(sent))
  BY <1>5, Zenon
<1>8. ~(replied < Len(sent)) => Len(sent) <= replied
  BY <1>4
<1>9. QED
  BY <1>2, <1>3, <1>6, <1>7, <1>8

\* Requests that were not answered are answered once.
LEMMA AnswerAppends ==
  ASSUME TypeOK, NEW rs \in SUBSET (1..MaxRequests), NEW i \in Nat,
         NEW success \in BOOLEAN, Answer(rs, i, success),
         \A r \in rs : answers[r] = <<>>
  PROVE  /\ answers' \in [1..MaxRequests -> Seq(Answers)]
         /\ \A r \in 1..MaxRequests : r \notin rs => answers'[r] = answers[r]
         /\ \A r \in rs : answers'[r] = <<[message |-> i, success |-> success]>>
<1> DEFINE a == [message |-> i, success |-> success]
<1>1. a \in Answers
  BY DEF Answers
<1>2. \A r \in rs : answers'[r] = Append(answers[r], a)
  BY DEF Answer
<1>3. \A r \in 1..MaxRequests : r \notin rs => answers'[r] = answers[r]
  BY DEF Answer
<1>4. \A r \in rs : answers'[r] = <<a>>
  BY <1>2
<1>5. <<a>> \in Seq(Answers)
  BY <1>1
<1>6. \A r \in 1..MaxRequests : answers'[r] \in Seq(Answers)
  BY <1>3, <1>4, <1>5 DEF TypeOK
<1>7. answers' \in [1..MaxRequests -> Seq(Answers)]
  <2>1. answers' = [r \in 1..MaxRequests |-> answers'[r]]
    BY DEF Answer
  <2>2. QED
    BY <2>1, <1>6
<1>8. QED
  BY <1>3, <1>4, <1>7

LEMMA AskStep == ASSUME IInv, NEW route \in Routes, Ask(route) PROVE IInv'
<1> DEFINE n == Len(requests) + 1
<1>1. TypeOK /\ OpenInv /\ PendingInv /\ LockStepInv /\ AnsweredOnce /\ AnswerInv
  BY DEF IInv
<1>2. /\ requests' = Append(requests, route) /\ n <= MaxRequests /\ Send(n)
      /\ handlers' \in {handlers, handlers \cup {n}}
      /\ UNCHANGED <<replied, tagged, searching, answers, ended>>
  BY DEF Ask
<1>3. n \in 1..MaxRequests /\ n \notin DOMAIN requests
  BY <1>1, <1>2, Domains
<1>4. /\ requests' \in Seq(Routes) /\ Len(requests') = n
      /\ \A r \in 1..Len(requests) : requests'[r] = requests[r]
      /\ DOMAIN requests' = 1..n
  BY <1>1, <1>2, AppendProperties, LenProperties DEF TypeOK
<1>5. /\ sent' \in Seq(1..MaxRequests)
      /\ Len(sent') = Len(sent) + 1
      /\ \A i \in 1..Len(sent) : sent'[i] = sent[i]
      /\ sent'[Len(sent) + 1] = n
      /\ overlapped' \in BOOLEAN
      /\ ~overlapped' => ~overlapped /\ Len(sent) <= replied
  BY <1>1, <1>2, <1>3, SendAppends
<1>6. answers[n] = <<>>
  BY <1>1, <1>3, Domains DEF OpenInv
<1>7. TypeOK'
  BY <1>1, <1>2, <1>3, <1>4, <1>5, Domains DEF TypeOK
<1>8. Grows
  BY <1>1, <1>2, <1>4, <1>5, Domains DEF Grows
<1>9. OpenInv'
  <2>1. n \notin searching
    BY <1>1, <1>3 DEF TypeOK
  <2>2. QED
    BY <1>1, <1>2, <1>3, <1>4, <1>6, <2>1, Domains DEF OpenInv
<1>10. PendingInv'
  <2> SUFFICES ASSUME NEW r \in handlers'
               PROVE  \E j \in DOMAIN sent' : sent'[j] = r /\ replied < j
    BY <1>2 DEF PendingInv
  <2>1. CASE r \in handlers
    BY <1>1, <1>5, <1>7, <2>1, Domains, DomainsNext DEF PendingInv
  <2>2. CASE r = n
    BY <1>1, <1>5, <1>7, <2>2, Domains, DomainsNext
  <2>3. QED
    BY <1>2, <2>1, <2>2
<1>11. LockStepInv'
  BY <1>1, <1>2, <1>5, Domains DEF LockStepInv
<1>12. AnswerInv'
  <2> SUFFICES ASSUME NEW r \in DOMAIN requests', NEW k \in DOMAIN answers[r]
               PROVE  GoodAnswer(r, answers[r][k])'
    BY <1>2 DEF AnswerInv
  <2>1. r \in DOMAIN requests
    BY <1>1, <1>4, <1>6, Domains
  <2>2. answers[r][k] \in Answers
    BY <1>1, <2>1, Domains DEF TypeOK
  <2>3. GoodAnswer(r, answers[r][k])
    BY <1>1, <2>1 DEF AnswerInv
  <2> DEFINE a == answers[r][k]
  <2>4. \A b \in Answers : GoodAnswer(r, b) => GoodAnswer(r, b)'
    BY <1>1, <1>7, <1>8, <2>1, GoodStays
  <2>5. QED
    BY <1>2, <2>2, <2>3, <2>4 DEF GoodAnswer
<1>13. AnsweredOnce'
  BY <1>1, <1>2 DEF AnsweredOnce
<1>14. QED
  BY <1>7, <1>9, <1>10, <1>11, <1>12, <1>13 DEF IInv

\* Answers that stay good, and one that is given to requests that wait for it.
LEMMA AnswerStep ==
  ASSUME IInv, TypeOK', Grows, NEW rs \in SUBSET (1..MaxRequests), NEW i \in Nat,
         NEW success \in BOOLEAN, Answer(rs, i, success), UNCHANGED requests,
         \A r \in rs : answers[r] = <<>>,
         \A r \in rs : GoodAnswer(r, [message |-> i, success |-> success])'
  PROVE  AnsweredOnce' /\ AnswerInv'
<1> DEFINE a == [message |-> i, success |-> success]
<1>1. TypeOK /\ AnsweredOnce /\ AnswerInv
  BY DEF IInv
<1>2. /\ \A r \in 1..MaxRequests : r \notin rs => answers'[r] = answers[r]
      /\ \A r \in rs : answers'[r] = <<a>>
  BY <1>1, AnswerAppends
<1> HIDE DEF a
<1>3. AnsweredOnce'
  <2> SUFFICES ASSUME NEW w \in 1..MaxRequests PROVE Len(answers'[w]) <= 1
    BY DEF AnsweredOnce
  <2>1. CASE w \in rs
    <3>1. answers'[w] = <<a>>
      BY <1>2, <2>1
    <3>2. Len(<<a>>) = 1
      OBVIOUS
    <3>3. QED
      BY <3>1, <3>2
  <2>2. CASE w \notin rs
    BY <1>1, <1>2, <2>2 DEF AnsweredOnce
  <2>3. QED
    BY <2>1, <2>2
<1>4. AnswerInv'
  <2> SUFFICES ASSUME NEW r \in DOMAIN requests, NEW k \in DOMAIN answers'[r]
               PROVE  GoodAnswer(r, answers[r][k])'
    BY DEF AnswerInv
  <2>1. r \in 1..MaxRequests
    BY <1>1, Domains
  <2>2. CASE r \in rs
    <3>1. k = 1 /\ answers'[r][k] = a
      BY <1>2, <2>2
    <3>2. GoodAnswer(r, a)'
      BY <2>2 DEF a
    <3>3. QED
      BY <3>1, <3>2 DEF GoodAnswer
  <2>3. CASE r \notin rs
    <3>1. answers'[r] = answers[r]
      BY <1>2, <2>1, <2>3
    <3>2. answers[r][k] \in Answers /\ GoodAnswer(r, answers[r][k])
      BY <1>1, <2>1, <3>1 DEF TypeOK, AnswerInv
    <3>3. \A b \in Answers : GoodAnswer(r, b) => GoodAnswer(r, b)'
      BY <1>1, GoodStays
    <3>4. QED
      BY <3>1, <3>2, <3>3 DEF GoodAnswer
  <2>4. QED
    BY <2>2, <2>3
<1>5. QED
  BY <1>3, <1>4

LEMMA ReplyStep == ASSUME IInv, NEW success \in BOOLEAN, Reply(success) PROVE IInv'
<1> DEFINE searches == IF success THEN Tagging ELSE {}
           rs == handlers \ searches
<1>1. TypeOK /\ OpenInv /\ PendingInv /\ LockStepInv /\ AnsweredOnce /\ AnswerInv
  BY DEF IInv
<1>2. /\ replied < Len(sent) /\ replied' = replied + 1
      /\ Answer(rs, replied', success)
      /\ searching' = searching \cup searches /\ handlers' = {}
      /\ UNCHANGED <<requests, sent, tagged, overlapped, ended>>
  BY DEF Reply
<1> PICK i \in Nat : i = replied'
  BY <1>1, <1>2, Domains
<1> DEFINE a == [message |-> i, success |-> success]
<1>3. searches \subseteq handlers /\ handlers \subseteq 1..MaxRequests
  BY <1>1, Domains DEF Tagging, TypeOK
<1>4. replied' \in Nat /\ replied' <= Len(sent)
  BY <1>1, <1>2, Domains
<1>5. \A r \in rs : answers[r] = <<>>
  BY <1>1 DEF OpenInv
<1>6. /\ answers' \in [1..MaxRequests -> Seq(Answers)]
      /\ \A r \in 1..MaxRequests : r \notin rs => answers'[r] = answers[r]
  BY <1>1, <1>2, <1>3, <1>4, <1>5, AnswerAppends
<1>7. TypeOK'
  BY <1>1, <1>2, <1>3, <1>4, <1>6, Domains DEF TypeOK
<1>8. Grows
  BY <1>1, <1>2, Domains DEF Grows
<1>9. OpenInv'
  <2>1. handlers' \cap searching' = {}
    BY <1>2
  <2>2. \A r \in searching' : r \in 1..MaxRequests /\ r \notin rs /\ answers[r] = <<>>
    BY <1>1, <1>2, <1>3, Domains DEF OpenInv, TypeOK
  <2>3. \A r \in 1..MaxRequests : r > Len(requests) => r \notin rs
    BY <1>1, Domains DEF TypeOK
  <2>4. QED
    BY <1>1, <1>2, <1>6, <2>1, <2>2, <2>3 DEF OpenInv
<1>10. PendingInv' /\ LockStepInv'
  BY <1>1, <1>2, Domains DEF PendingInv, LockStepInv
<1>11. \A r \in rs : GoodAnswer(r, a)'
  <2> SUFFICES ASSUME NEW r \in rs PROVE GoodAnswer(r, a)'
    OBVIOUS
  <2>1. PICK j \in DOMAIN sent : sent[j] = r /\ replied < j
    BY <1>1 DEF PendingInv
  <2>2. j \in 1..Len(sent) /\ replied' <= j
    BY <1>1, <1>2, <2>1, Domains
  <2>3. ~overlapped => j = i
    BY <1>1, <1>2, <2>1, <2>2, Domains DEF LockStepInv
  <2>4. requests[r] = "add_trs" => r \in tagged \/ ~success
    BY DEF Tagging
  <2>5. a.message = i /\ a.success = success
    OBVIOUS
  <2>6. i <= replied'
    BY <1>4
  <2>7. \E n \in DOMAIN sent' : sent'[n] = r /\ i <= n
    BY <1>2, <2>1, <2>2
  <2>8. ~overlapped' => /\ sent'[i] = r
                        /\ requests'[r] = "add_trs" => r \in tagged' \/ ~success
    BY <1>2, <2>1, <2>3, <2>4
  <2>9. QED
    BY <2>5, <2>6, <2>7, <2>8 DEF GoodAnswer
<1>12. AnsweredOnce' /\ AnswerInv'
  BY <1>2, <1>3, <1>4, <1>5, <1>7, <1>8, <1>11, AnswerStep
<1>13. QED
  BY <1>7, <1>9, <1>10, <1>12 DEF IInv

LEMMA FoundStep == ASSUME IInv, NEW r \in searching, Found(r) PROVE IInv'
<1>1. TypeOK /\ OpenInv /\ PendingInv /\ LockStepInv /\ AnsweredOnce /\ AnswerInv
  BY DEF IInv
<1>2. /\ searching' = searching \ {r} /\ handlers' = handlers \cup {r}
      /\ tagged' = tagged \cup {r} /\ Send(r)
      /\ UNCHANGED <<requests, replied, answers, ended>>
  BY DEF Found
<1>3. r \in DOMAIN requests /\ r \in 1..MaxRequests
  BY <1>1, Domains DEF TypeOK
<1>4. /\ sent' \in Seq(1..MaxRequests)
      /\ Len(sent') = Len(sent) + 1
      /\ \A i \in 1..Len(sent) : sent'[i] = sent[i]
      /\ sent'[Len(sent) + 1] = r
      /\ overlapped' \in BOOLEAN
      /\ ~overlapped' => ~overlapped /\ Len(sent) <= replied
  BY <1>1, <1>2, <1>3, SendAppends
<1>5. TypeOK'
  BY <1>1, <1>2, <1>3, <1>4, Domains DEF TypeOK
<1>6. Grows
  BY <1>1, <1>2, <1>4, Domains DEF Grows
<1>7. OpenInv'
  BY <1>1, <1>2 DEF OpenInv
<1>8. PendingInv'
  <2> SUFFICES ASSUME NEW w \in handlers'
               PROVE  \E j \in DOMAIN sent' : sent'[j] = w /\ replied < j
    BY <1>2 DEF PendingInv
  <2>1. CASE w \in handlers
    BY <1>1, <1>4, <1>5, <2>1, Domains, DomainsNext DEF PendingInv
  <2>2. CASE w = r
    BY <1>1, <1>4, <1>5, <2>2, Domains, DomainsNext
  <2>3. QED
    BY <1>2, <2>1, <2>2
<1>9. LockStepInv'
  BY <1>1, <1>2, <1>4, Domains DEF LockStepInv
<1>10. AnsweredOnce'
  BY <1>1, <1>2 DEF AnsweredOnce
<1>11. AnswerInv'
  <2> SUFFICES ASSUME NEW w \in DOMAIN requests, NEW k \in DOMAIN answers[w]
               PROVE  GoodAnswer(w, answers[w][k])'
    BY <1>2 DEF AnswerInv
  <2>1. answers[w][k] \in Answers /\ GoodAnswer(w, answers[w][k])
    BY <1>1, Domains DEF TypeOK, AnswerInv
  <2>2. \A b \in Answers : GoodAnswer(w, b) => GoodAnswer(w, b)'
    BY <1>1, <1>5, <1>6, GoodStays
  <2>3. QED
    BY <1>2, <2>1, <2>2 DEF GoodAnswer
<1>12. QED
  BY <1>5, <1>7, <1>8, <1>9, <1>10, <1>11 DEF IInv

LEMMA NotFoundStep == ASSUME IInv, NEW r \in searching, NotFound(r) PROVE IInv'
<1> DEFINE a == [message |-> 0, success |-> FALSE]
<1>1. TypeOK /\ OpenInv /\ PendingInv /\ LockStepInv /\ AnsweredOnce /\ AnswerInv
  BY DEF IInv
<1>2. /\ searching' = searching \ {r} /\ Answer({r}, 0, FALSE) /\ ended' = TRUE
      /\ UNCHANGED <<requests, sent, replied, handlers, tagged, overlapped>>
  BY DEF NotFound
<1>3. r \in 1..Len(requests) /\ {r} \in SUBSET (1..MaxRequests)
  BY <1>1, Domains DEF TypeOK
<1>4. \A w \in {r} : answers[w] = <<>>
  BY <1>1 DEF OpenInv
<1>5. /\ answers' \in [1..MaxRequests -> Seq(Answers)]
      /\ \A w \in 1..MaxRequests : w \notin {r} => answers'[w] = answers[w]
  BY <1>1, <1>2, <1>3, <1>4, AnswerAppends
<1>6. TypeOK'
  BY <1>1, <1>2, <1>5 DEF TypeOK
<1>7. Grows
  BY <1>1, <1>2, Domains DEF Grows
<1>8. OpenInv'
  <2>1. \A w \in handlers' \cup searching' : w \in 1..MaxRequests /\ w # r
    BY <1>1, <1>2, Domains DEF OpenInv, TypeOK
  <2>2. \A w \in 1..MaxRequests : w > Len(requests) => w # r
    BY <1>1, <1>3, Domains
  <2>3. QED
    BY <1>1, <1>2, <1>5, <2>1, <2>2 DEF OpenInv
<1>9. PendingInv' /\ LockStepInv'
  BY <1>1, <1>2 DEF PendingInv, LockStepInv
<1>10. \A w \in {r} : GoodAnswer(w, a)'
  <2>1. 0 <= replied'
    BY <1>1, <1>2, Domains
  <2>2. QED
    BY <2>1 DEF GoodAnswer
<1>11. AnsweredOnce' /\ AnswerInv'
  BY <1>2, <1>3, <1>4, <1>6, <1>7, <1>10, AnswerStep
<1>12. QED
  BY <1>6, <1>8, <1>9, <1>11 DEF IInv

\* Neither the end of the process nor a stuttering step touches what the invariant
\* is about.
LEMMA QuietStep ==
  ASSUME IInv, ended' \in BOOLEAN,
         UNCHANGED <<requests, sent, replied, handlers, tagged, searching, answers,
                     overlapped>>
  PROVE  IInv'
BY DEF IInv, TypeOK, OpenInv, PendingInv, LockStepInv, AnsweredOnce, AnswerInv,
       GoodAnswer

LEMMA NextIInv == IInv /\ [Next]_vars => IInv'
<1> SUFFICES ASSUME IInv, [Next]_vars PROVE IInv'
  OBVIOUS
<1>1. ASSUME NEW route \in Routes, Ask(route) PROVE IInv'
  BY <1>1, AskStep
<1>2. ASSUME NEW success \in BOOLEAN, Reply(success) PROVE IInv'
  BY <1>2, ReplyStep
<1>3. ASSUME NEW r \in searching, Found(r) \/ NotFound(r) PROVE IInv'
  BY <1>3, FoundStep, NotFoundStep
<1>4. CASE ErrorNotified
  BY <1>4, QuietStep DEF ErrorNotified
<1>5. CASE UNCHANGED vars
  BY <1>5, QuietStep DEF vars, IInv, TypeOK
<1>6. QED
  BY <1>1, <1>2, <1>3, <1>4, <1>5 DEF Next

LEMMA SpecIInv == Spec => []IInv
BY InitIInv, NextIInv, PTL DEF Spec

\* Every variable of the client keeps its type, whatever routes there are and however
\* many requests.
THEOREM NodeTypeCorrect == Spec => []TypeOK
<1>1. IInv => TypeOK
  BY DEF IInv
<1>2. QED
  BY <1>1, SpecIInv, PTL

\* No HTTP request is answered twice (res.json of index.coffee, called by the
\* handlers of visor-client.coffee).
THEOREM NodeAnsweredOnce == Spec => []AnsweredOnce
<1>1. IInv => AnsweredOnce
  BY DEF IInv
<1>2. QED
  BY <1>1, SpecIInv, PTL

\* What AnswerInv says of the k-th answer, said of a message.
LEMMA AnsweredIsGood ==
  ASSUME IInv, NEW r \in DOMAIN requests, NEW i \in DOMAIN sent, Answered(r, i)
  PROVE  /\ \E j \in DOMAIN sent : sent[j] = r /\ i <= j
         /\ ~overlapped =>
              /\ sent[i] = r
              /\ requests[r] = "add_trs" => r \in tagged \/ ~answers[r][1].success
<1>1. TypeOK /\ AnsweredOnce /\ AnswerInv
  BY DEF IInv
<1>2. PICK k \in DOMAIN answers[r] : answers[r][k].message = i
  BY DEF Answered
<1>3. GoodAnswer(r, answers[r][k])
  BY <1>1, <1>2 DEF AnswerInv
<1>4. k = 1
  <2>1. answers[r] \in Seq(Answers) /\ Len(answers[r]) <= 1
    BY <1>1, Domains DEF TypeOK, AnsweredOnce
  <2>2. Len(answers[r]) \in Nat /\ DOMAIN answers[r] = 1..Len(answers[r])
    BY <2>1, LenProperties
  <2>3. QED
    BY <1>2, <2>1, <2>2
<1>5. i # 0
  BY <1>1, Domains
<1>6. QED
  BY <1>2, <1>3, <1>4, <1>5 DEF GoodAnswer

\* However requests overlap on the socket of visor-client.coffee, none is answered by
\* a reply to a message that was sent after its own.
THEOREM NodeNeverLaterReply == Spec => []NeverLaterReply
<1>1. IInv => NeverLaterReply
  BY AnsweredIsGood DEF NeverLaterReply
<1>2. QED
  BY <1>1, SpecIInv, PTL

\* While no message is sent before the last one was replied to, the handlers of
\* req_socket.once get their own replies, add_trs that to its second message.
THEOREM NodeOwnReplyUnlessOverlapped == Spec => []OwnReplyUnlessOverlapped
<1>1. IInv => OwnReplyUnlessOverlapped
  BY AnsweredIsGood DEF OwnReplyUnlessOverlapped
<1>2. QED
  BY <1>1, SpecIInv, PTL
=============================================================================
