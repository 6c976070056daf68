------------------------- MODULE ConversationProofs -------------------------
(***************************************************************************)
(* Proofs about Conversation, for any people, any mails and any order of   *)
(* their arrival.                                                          *)
(***************************************************************************)
EXTENDS Conversation, SequenceTheorems, TLAPS

-----------------------------------------------------------------------------
(* The inductive invariant.                                                *)

\* A mail refers to earlier mails of its conversation: to the one it answers and, unless
\* the client dropped them, to all that this one refers to. What the assistant answers
\* is on record, and referred to; it does not write to itself.
Chain(m) ==
    LET r == mails[m].inReplyTo
        references == mails[m].references
    IN  /\ r \in 0..(m - 1)
        /\ references \subseteq 1..(m - 1)
        /\ r # 0 => mails[r].topic = mails[m].topic
        /\ references # {} => r # 0 /\ references = mails[r].references \cup {r}
        /\ \A x \in references : mails[x].topic = mails[m].topic
        /\ mails[m].from = Assistant /\ r # 0 => references # {} /\ r \in DOMAIN stored
        /\ mails[m].from = Assistant => Assistant \notin mails[m].to

Chained == \A m \in DOMAIN mails : Chain(m)

\* A mail is filed in a thread of its conversation, a reply with the mail it answers.
FiledMail(m) ==
    /\ stored[m].thread \in DOMAIN mails
    /\ mails[stored[m].thread].topic = mails[m].topic
    /\ mails[m].from # Assistant => m \in arrived
    /\ mails[m].from = Assistant =>
          /\ mails[m].inReplyTo \in DOMAIN stored
          /\ stored[m].thread = stored[mails[m].inReplyTo].thread

Filed == \A m \in DOMAIN stored : FiledMail(m)

\* What was sent answers the first mail of the queue.
Pending ==
    sent # 0 => /\ queue # <<>>
                /\ mails[sent].from = Assistant
                /\ mails[sent].inReplyTo = queue[1]

\* Runs are for mails of allowed senders, and for what is sent in the owner's name.
Queued == \A i \in DOMAIN queue : mails[queue[i]].from \in AllowedSenders \cup {Owner}

IInv == TypeOK /\ Chained /\ Filed /\ Queued /\ Pending

-----------------------------------------------------------------------------
(* New mails.                                                              *)

\* Mails are appended; none is changed or taken back.
Grown(new) ==
    /\ mails' \in Seq(Mail) /\ Len(mails') <= MaxMails
    /\ DOMAIN mails' = DOMAIN mails \cup new
    /\ new \cap DOMAIN mails = {}
    /\ \A n \in new : n \in Ids /\ n > Len(mails)
    /\ \A m \in DOMAIN mails : mails'[m] = mails[m]

LEMMA SendOne ==
    ASSUME TypeOK, NEW a \in Mail, Send(<<a>>)
    PROVE  Grown({NextId}) /\ mails'[NextId] = a
BY ConversationAssumption DEF TypeOK, Send, NextId, Grown, Ids

LEMMA SendTwo ==
    ASSUME TypeOK, NEW a \in Mail, NEW b \in Mail, Send(<<a, b>>)
    PROVE  Grown({NextId, NextId + 1}) /\ mails'[NextId] = a /\ mails'[NextId + 1] = b
<1>. DEFINE both == <<a, b>>
<1>1. both \in Seq(Mail) /\ Len(both) = 2 /\ both[1] = a /\ both[2] = b
  OBVIOUS
<1>2. mails \in Seq(Mail) /\ Len(mails) + 2 <= MaxMails /\ mails' = mails \o both
  BY <1>1 DEF TypeOK, Send
<1>. HIDE DEF both
<1>3. /\ mails' \in Seq(Mail) /\ Len(mails') = Len(mails) + 2
      /\ \A i \in 1..(Len(mails) + 2) :
            mails'[i] = IF i <= Len(mails) THEN mails[i] ELSE both[i - Len(mails)]
  <2>1. /\ mails \o both \in Seq(Mail)
        /\ Len(mails \o both) = Len(mails) + Len(both)
        /\ \A i \in 1..(Len(mails) + Len(both)) :
              (mails \o both)[i] = IF i <= Len(mails) THEN mails[i] ELSE both[i - Len(mails)]
    <3>1. both \in Seq(Mail) /\ mails \in Seq(Mail)
      BY <1>1, <1>2
    <3>. QED
      BY <3>1, ConcatProperties, Zenon
  <2>2. Len(both) = 2 /\ mails' = mails \o both
    BY <1>1, <1>2
  <2>. HIDE <1>1, <1>2
  <2>. QED
    BY <2>1, <2>2, Zenon
<1>4. Len(mails) \in Nat /\ DOMAIN mails = 1..Len(mails) /\ DOMAIN mails' = 1..(Len(mails) + 2)
  BY <1>2, <1>3
<1>5. mails'[Len(mails) + 1] = a /\ mails'[Len(mails) + 2] = b
  BY <1>1, <1>3, <1>4
<1>6. \A m \in DOMAIN mails : mails'[m] = mails[m]
  BY <1>3, <1>4
<1>. QED
  BY <1>2, <1>3, <1>4, <1>5, <1>6, ConversationAssumption DEF NextId, Grown, Ids

\* There is room for what was sent.
LEMMA SendFits ==
    ASSUME TypeOK, NEW a, NEW b, Send(<<a>>) \/ Send(<<a, b>>)
    PROVE  NextId \in Ids /\ (Send(<<a, b>>) => NextId + 1 \in Ids)
BY ConversationAssumption DEF TypeOK, Send, NextId, Ids

\* The words and quotes of a new mail are bodies.
LEMMA BodyTypes ==
    ASSUME NEW m \in Ids, NEW quote \in Body
    PROVE  /\ Words(m) \in Body /\ WithFooter(quote) \in Body /\ Strip(quote) \in Body
           /\ QuoteBelow(m, quote) \in Body /\ QuoteAbove(m, quote) \in Body
<1>1. QuoteBelow(m, quote) \in Body
  BY DEF Body, QuoteBelow
<1>2. [quote EXCEPT !.below = quote.below \cup {m}] \in Body
  BY DEF Body
<1>. QED
  BY <1>1, <1>2 DEF Body, Words, WithFooter, Strip, QuoteAbove

\* A mail that answers a mail that was sent, or none, is a mail.
LEMMA NewMailType ==
    ASSUME TypeOK, NextId \in Ids, NEW from \in People \cup {Assistant},
           NEW to \in SUBSET (People \cup {Assistant}), NEW p \in {0} \cup DOMAIN mails,
           NEW references \in SUBSET Ids, NEW body \in Body
    PROVE  NewMail(from, to, p, references, body) \in Mail
<1>1. p \in 0..MaxMails
  BY ConversationAssumption DEF TypeOK
<1>. DEFINE topic == IF p = 0 THEN NextId ELSE mails[p].topic
<1>2. topic \in Ids
  <2>1. CASE p = 0
    BY <2>1
  <2>2. CASE p # 0
    <3>1. mails[p] \in Mail
      BY <2>2 DEF TypeOK
    <3>. QED
      BY <2>2, <3>1 DEF Mail
  <2>. QED
    BY <2>1, <2>2
<1>. HIDE DEF topic
<1>3. [from |-> from, to |-> to, inReplyTo |-> p, references |-> references, body |-> body,
       topic |-> topic] \in Mail
  BY <1>1, <1>2 DEF Mail
<1>. QED
  BY <1>3 DEF NewMail, topic

\* Mails that grow keep the links between the earlier ones.
LEMMA ChainKept ==
    ASSUME TypeOK, Chained, NEW new, Grown(new), DOMAIN stored \subseteq DOMAIN stored',
           NEW m \in DOMAIN mails
    PROVE  Chain(m)'
<1>1. Chain(m) /\ mails'[m] = mails[m]
  BY DEF Chained, Grown
<1>2. mails[m].inReplyTo \in {0} \cup DOMAIN mails /\ mails[m].references \subseteq DOMAIN mails
  BY <1>1 DEF Chain, TypeOK
<1>3. /\ \A x \in mails[m].references : mails'[x] = mails[x]
      /\ mails[m].inReplyTo # 0 => mails'[mails[m].inReplyTo] = mails[mails[m].inReplyTo]
  BY <1>2 DEF Grown
<1>. QED
  BY <1>1, <1>3 DEF Chain

\* A new mail that answers an earlier one as a client does, or none, is linked.
LEMMA ChainOfNew ==
    ASSUME TypeOK, Chained, NEW new, Grown(new), DOMAIN stored \subseteq DOMAIN stored',
           NEW n \in new, NEW r \in {0} \cup DOMAIN mails, mails'[n].inReplyTo = r,
           r = 0 => mails'[n].references = {},
           r # 0 => mails'[n].topic = mails[r].topic
                    /\ mails'[n].references \in {{}, mails[r].references \cup {r}},
           mails'[n].from = Assistant /\ r # 0 => mails'[n].references # {} /\ r \in DOMAIN stored,
           mails'[n].from = Assistant => Assistant \notin mails'[n].to
    PROVE  Chain(n)'
<1>1. Len(mails) \in Nat /\ DOMAIN mails = 1..Len(mails) /\ n \in Nat /\ n > Len(mails)
  BY ConversationAssumption DEF TypeOK, Grown, Ids
<1>2. CASE r = 0
  BY <1>1, <1>2 DEF Chain
<1>3. CASE r # 0
  <2>1. r \in 1..(n - 1) /\ Chain(r) /\ mails'[r] = mails[r]
    BY <1>1, <1>3 DEF Chained, Grown
  <2>2. mails[r].references \subseteq 1..(r - 1)
    BY <2>1 DEF Chain
  <2>3. mails[r].references \subseteq 1..(n - 1) /\ mails[r].references \subseteq DOMAIN mails
    BY <1>1, <1>3, <2>1, <2>2
  <2>4. \A x \in mails[r].references : mails'[x] = mails[x] /\ mails[x].topic = mails[r].topic
    BY <2>1, <2>3 DEF Chain, Grown
  <2>. QED
    BY <1>3, <2>1, <2>3, <2>4 DEF Chain
<1>. QED
  BY <1>2, <1>3
-----------------------------------------------------------------------------
(* What a step leaves behind.                                              *)

\* A mail that is stored for the first time leaves the record of the others alone.
LEMMA StoreEffect ==
    ASSUME TypeOK, NEW m \in DOMAIN mails', NEW thread \in Ids, NEW body \in Body,
           DOMAIN mails \subseteq DOMAIN mails', m \notin DOMAIN stored, Store(m, thread, body)
    PROVE  /\ DOMAIN stored' = DOMAIN stored \cup {m}
           /\ DOMAIN stored' \subseteq DOMAIN mails'
           /\ stored'[m].thread = thread /\ stored'[m].body = body
           /\ \A n \in DOMAIN stored : stored'[n] = stored[n]
           /\ stored' \in [DOMAIN stored' -> [thread : Ids, body : Body]]
BY DEF TypeOK, Store

\* Mails that grow keep what is on record in its threads.
LEMMA FiledKept ==
    ASSUME TypeOK, Chained, Filed, NEW new, Grown(new), arrived \subseteq arrived',
           DOMAIN stored \subseteq DOMAIN stored',
           \A n \in DOMAIN stored : stored'[n] = stored[n],
           NEW m \in DOMAIN stored
    PROVE  FiledMail(m)'
<1>1. FiledMail(m) /\ stored'[m] = stored[m] /\ m \in DOMAIN mails /\ mails'[m] = mails[m]
  BY DEF Filed, Grown, TypeOK
<1>2. /\ stored[m].thread \in DOMAIN mails
      /\ mails'[stored[m].thread] = mails[stored[m].thread]
      /\ DOMAIN mails \subseteq DOMAIN mails'
  BY <1>1 DEF FiledMail, Grown
<1>3. mails[m].from = Assistant =>
         /\ mails[m].inReplyTo \in DOMAIN stored
         /\ stored'[mails[m].inReplyTo] = stored[mails[m].inReplyTo]
  BY <1>1 DEF FiledMail
<1>. QED
  BY <1>1, <1>2, <1>3 DEF FiledMail

\* What a step that only adds mails and may end the run keeps.
LEMMA MailsOnly ==
    ASSUME IInv, NEW new, Grown(new), \A n \in new : Chain(n)',
           UNCHANGED <<arrived, stored>>,
           \/ queue' = queue
           \/ queue # <<>> /\ queue' = Tail(queue),
           sent' \in {0} \cup DOMAIN mails', Pending'
    PROVE  IInv'
<1>1. Chained'
  BY ChainKept DEF IInv, Chained, Grown
<1>2. Filed'
  BY FiledKept DEF IInv, Filed
<1>3. queue' \in Seq(DOMAIN stored) /\ \A i \in DOMAIN queue' : \E j \in DOMAIN queue : queue'[i] = queue[j]
  <2>1. CASE queue' = queue
    BY <2>1 DEF IInv, TypeOK
  <2>2. CASE queue # <<>> /\ queue' = Tail(queue)
    <3>1. queue \in Seq(DOMAIN stored)
      BY DEF IInv, TypeOK
    <3>2. /\ Tail(queue) \in Seq(DOMAIN stored) /\ Len(Tail(queue)) = Len(queue) - 1
          /\ \A i \in 1..Len(Tail(queue)) : Tail(queue)[i] = queue[i + 1]
      BY <2>2, <3>1, HeadTailProperties, Zenon
    <3>3. /\ DOMAIN queue = 1..Len(queue) /\ Len(queue) \in Nat
          /\ DOMAIN Tail(queue) = 1..Len(Tail(queue))
      BY <3>1, <3>2
    <3>4. \A i \in DOMAIN Tail(queue) : i + 1 \in DOMAIN queue /\ Tail(queue)[i] = queue[i + 1]
      BY <3>2, <3>3
    <3>. QED
      BY <2>2, <3>2, <3>4, Zenon
  <2>. QED
    BY <2>1, <2>2
<1>4. TypeOK'
  BY <1>3 DEF IInv, TypeOK, Grown
<1>5. Queued'
  <2>1. \A j \in DOMAIN queue : queue[j] \in DOMAIN mails /\ mails'[queue[j]] = mails[queue[j]]
    BY DEF IInv, TypeOK, Grown
  <2>. QED
    BY <1>3, <2>1 DEF IInv, Queued
<1>. QED
  BY <1>1, <1>2, <1>4, <1>5 DEF IInv

\* What a step that stores a mail for the first time keeps.
LEMMA OneStored ==
    ASSUME IInv, NEW new, Grown(new), \A n \in new : Chain(n)',
           NEW m \in DOMAIN mails', m \notin DOMAIN stored,
           NEW thread \in Ids, NEW body \in Body, Store(m, thread, body),
           FiledMail(m)', arrived \subseteq arrived', arrived' \subseteq DOMAIN mails',
           sent' = sent,
           \/ queue' = queue
           \/ queue' = Append(queue, m) /\ mails'[m].from \in AllowedSenders \cup {Owner}
    PROVE  IInv'
<1>1. /\ DOMAIN stored' = DOMAIN stored \cup {m}
      /\ DOMAIN stored' \subseteq DOMAIN mails'
      /\ \A n \in DOMAIN stored : stored'[n] = stored[n]
      /\ stored' \in [DOMAIN stored' -> [thread : Ids, body : Body]]
  BY StoreEffect DEF IInv, Grown
<1>2. Chained'
  BY <1>1, ChainKept DEF IInv, Chained, Grown
<1>3. Filed'
  BY <1>1, FiledKept DEF IInv, Filed
<1>4. queue \in Seq(DOMAIN stored') /\ queue \in Seq(DOMAIN stored)
  BY <1>1, SeqMonotonic DEF IInv, TypeOK
<1>5. /\ queue' \in Seq(DOMAIN stored')
      /\ \A i \in DOMAIN queue' : \/ i \in DOMAIN queue /\ queue'[i] = queue[i]
                                  \/ queue'[i] = m /\ mails'[m].from \in AllowedSenders \cup {Owner}
      /\ queue # <<>> => queue' # <<>> /\ queue'[1] = queue[1]
  <2>1. CASE queue' = queue
    BY <1>4, <2>1
  <2>2. CASE queue' = Append(queue, m) /\ mails'[m].from \in AllowedSenders \cup {Owner}
    <3>. DEFINE S == DOMAIN stored'
    <3>1. queue \in Seq(S) /\ m \in S
      BY <1>1, <1>4
    <3>. HIDE DEF S
    <3>2. /\ Append(queue, m) \in Seq(S)
          /\ Append(queue, m) # <<>>
          /\ Len(Append(queue, m)) = Len(queue) + 1
          /\ \A i \in 1..Len(queue) : Append(queue, m)[i] = queue[i]
          /\ Append(queue, m)[Len(queue) + 1] = m
      BY <3>1, AppendProperties
    <3>3. /\ DOMAIN queue = 1..Len(queue) /\ Len(queue) \in Nat
          /\ DOMAIN Append(queue, m) = 1..(Len(queue) + 1)
          /\ queue # <<>> => 1 \in DOMAIN queue
      BY <3>1, <3>2
    <3>4. \A i \in DOMAIN Append(queue, m) :
             \/ i \in DOMAIN queue /\ Append(queue, m)[i] = queue[i]
             \/ Append(queue, m)[i] = m
      BY <3>2, <3>3
    <3>5. queue # <<>> => Append(queue, m)[1] = queue[1]
      BY <3>2, <3>3
    <3>. QED
      BY <2>2, <3>2, <3>4, <3>5, Zenon DEF S
  <2>. QED
    BY <2>1, <2>2
<1>6. TypeOK'
  BY <1>1, <1>5 DEF IInv, TypeOK, Grown
<1>7. Queued'
  <2>1. \A j \in DOMAIN queue : queue[j] \in DOMAIN mails /\ mails'[queue[j]] = mails[queue[j]]
    BY DEF IInv, TypeOK, Grown
  <2>. QED
    BY <1>5, <2>1 DEF IInv, Queued
<1>8. Pending'
  <2>1. sent # 0 => sent \in DOMAIN mails /\ mails'[sent] = mails[sent]
    BY DEF IInv, TypeOK, Grown
  <2>. QED
    BY <1>5, <2>1 DEF IInv, Pending
<1>. QED
  BY <1>2, <1>3, <1>6, <1>7, <1>8 DEF IInv

-----------------------------------------------------------------------------
(* The actions.                                                            *)

\* Nothing new.
LEMMA Unsent == ASSUME TypeOK, mails' = mails PROVE Grown({})
BY DEF TypeOK, Grown

\* The fields of a new mail.
LEMMA NewMailFields ==
    ASSUME NEW from, NEW to, NEW p, NEW references, NEW body
    PROVE  LET a == NewMail(from, to, p, references, body)
           IN  /\ a.from = from /\ a.to = to /\ a.inReplyTo = p /\ a.references = references
               /\ a.body = body /\ a.topic = IF p = 0 THEN NextId ELSE mails[p].topic
BY DEF NewMail

\* A person writes.
LEMMA WriteStep == ASSUME IInv, NEW p \in People, Write(p) PROVE IInv'
<1>. USE DEF IInv
<1>1. PICK r \in {0} \cup DOMAIN mails, references \in SUBSET Ids, body \in Body :
         /\ Send(<<NewMail(p, {Assistant}, r, references, body)>>)
         /\ r = 0 => references = {}
         /\ r # 0 => references \in {{}, mails[r].references \cup {r}}
  <2>1. PICK r \in {0} \cup DOMAIN mails, keeps \in BOOLEAN :
           LET references == IF r = 0 \/ ~keeps THEN {} ELSE mails[r].references \cup {r}
               bodies == IF r = 0 THEN {Words(NextId)}
                         ELSE {QuoteBelow(NextId, mails[r].body), QuoteAbove(NextId, mails[r].body)}
           IN  \E body \in bodies : Send(<<NewMail(p, {Assistant}, r, references, body)>>)
    BY DEF Write
  <2>. DEFINE references == IF r = 0 \/ ~keeps THEN {} ELSE mails[r].references \cup {r}
  <2>2. PICK body : /\ Send(<<NewMail(p, {Assistant}, r, references, body)>>)
                    /\ \/ r = 0 /\ body = Words(NextId)
                       \/ r # 0 /\ body \in {QuoteBelow(NextId, mails[r].body), QuoteAbove(NextId, mails[r].body)}
    BY <2>1
  <2>3. NextId \in Ids
    BY <2>2, SendFits
  <2>4. r # 0 => mails[r] \in Mail /\ r \in Ids
    BY ConversationAssumption DEF TypeOK, Ids
  <2>5. body \in Body
    <3>1. CASE r = 0
      <4>1. [above |-> {NextId}, below |-> {}, footer |-> FALSE] \in Body
        BY <2>3 DEF Body
      <4>. QED
        BY <3>1, <2>2, <4>1 DEF Words
    <3>2. CASE r # 0
      BY <3>2, <2>2, <2>3, <2>4, BodyTypes DEF Mail
    <3>. QED
      BY <3>1, <3>2
  <2>6. references \in SUBSET Ids
    BY <2>4 DEF Mail
  <2>. QED
    BY <2>2, <2>5, <2>6
<1>. DEFINE a == NewMail(p, {Assistant}, r, references, body)
<1>2. a \in Mail
  BY <1>1, SendFits, NewMailType
<1>3. Grown({NextId}) /\ mails'[NextId] = a
  BY <1>1, <1>2, SendOne
<1>4. UNCHANGED <<arrived, stored, queue, sent>>
  BY DEF Write
<1>5. /\ a.from = p /\ a.inReplyTo = r /\ a.references = references
      /\ r # 0 => a.topic = mails[r].topic
  BY NewMailFields
<1>. HIDE DEF a
<1>6. PICK n \in Ids : n = NextId
  BY <1>1, SendFits
<1>7. Chain(n)'
  <2>1. mails'[n] = a /\ n \in {NextId} /\ DOMAIN stored \subseteq DOMAIN stored' /\ p # Assistant
    BY <1>3, <1>4, <1>6, ConversationAssumption
  <2>. QED
    BY <1>1, <1>3, <1>5, <2>1, ChainOfNew
<1>8. sent' \in {0} \cup DOMAIN mails' /\ Pending'
  BY <1>3, <1>4 DEF TypeOK, Pending, Grown
<1>. QED
  BY <1>3, <1>4, <1>6, <1>7, <1>8, MailsOnly

\* A mail of the assistant that answers nothing, or a synthetic mail, begins a conversation.
LEMMA FirstMail ==
    ASSUME IInv, NextId \in Ids, NEW from \in People \cup {Assistant}, NEW p \in People \cup {Assistant},
           NEW n \in {NextId, NextId + 1}, n \in Ids
    PROVE  /\ NewMail(from, {p}, 0, {}, Words(n)) \in Mail
           /\ [NewMail(from, {p}, 0, {}, Words(NextId)) EXCEPT !.body = Words(n), !.topic = n] \in Mail
<1>1. \A i \in Ids : Words(i) \in Body
  BY DEF Words, Body
<1>2. NewMail(from, {p}, 0, {}, Words(n)) \in Mail
  BY <1>1, NewMailType DEF IInv
<1>3. NewMail(from, {p}, 0, {}, Words(NextId)) \in Mail
  BY <1>1, NewMailType DEF IInv
<1>. QED
  BY <1>1, <1>2, <1>3 DEF Mail

\* The mail whose run is executed is on record, and of someone who may write.
LEMMA FirstOfQueue ==
    ASSUME IInv, queue # <<>>
    PROVE  /\ queue[1] \in DOMAIN stored /\ queue[1] \in DOMAIN mails
           /\ mails[queue[1]].from \in AllowedSenders \cup {Owner}
<1>1. queue[1] \in DOMAIN stored /\ queue[1] \in DOMAIN mails /\ 1 \in DOMAIN queue
  BY DEF IInv, TypeOK
<1>. QED
  BY <1>1 DEF IInv, Queued

\* What answers it.
LEMMA Answers ==
    ASSUME IInv, NextId \in Ids, NEW copies \in SUBSET {EndUser}, NEW body \in Body,
           NEW m \in DOMAIN mails, mails[m].from \in AllowedSenders \cup {Owner}
    PROVE  /\ Envelope(m, copies, body) \in Mail
           /\ Envelope(m, copies, body) =
                [from |-> Assistant, to |-> {mails[m].from} \cup copies, inReplyTo |-> m,
                 references |-> mails[m].references \cup {m}, body |-> body,
                 topic |-> mails[m].topic]
<1>1. mails[m] \in Mail /\ m \in Ids /\ m # 0
  BY ConversationAssumption DEF IInv, TypeOK, Ids
<1>2. mails[m].references \cup {m} \in SUBSET Ids
  BY <1>1 DEF Mail
<1>3. {mails[m].from} \cup copies \in SUBSET (People \cup {Assistant})
  BY ConversationAssumption
<1>4. Envelope(m, copies, body) \in Mail
  BY <1>2, <1>3, NewMailType DEF Envelope, References, IInv
<1>. QED
  BY <1>1, <1>4 DEF Envelope, References, NewMail

\* A mail that answers another one is linked to it.
LEMMA ChainOfAnswer ==
    ASSUME IInv, queue # <<>>, NEW new, Grown(new), UNCHANGED stored, NEW n \in new,
           NEW copies \in SUBSET {EndUser}, NEW body \in Body, NextId \in Ids,
           mails'[n] = Envelope(queue[1], copies, body)
    PROVE  Chain(n)' /\ mails'[n].from = Assistant /\ mails'[n].inReplyTo = queue[1]
<1>1. PICK m \in DOMAIN mails : m = queue[1]
  BY FirstOfQueue
<1>2. m \in DOMAIN stored /\ mails[m].from \in AllowedSenders \cup {Owner}
  BY <1>1, FirstOfQueue
<1>3. mails'[n] = Envelope(m, copies, body)
  BY <1>1
<1>4. /\ mails'[n].from = Assistant /\ mails'[n].inReplyTo = m
      /\ mails'[n].references = mails[m].references \cup {m}
      /\ mails'[n].topic = mails[m].topic
      /\ mails'[n].to = {mails[m].from} \cup copies
  <2>1. Envelope(m, copies, body) =
           [from |-> Assistant, to |-> {mails[m].from} \cup copies, inReplyTo |-> m,
            references |-> mails[m].references \cup {m}, body |-> body, topic |-> mails[m].topic]
    BY <1>2, Answers
  <2>. QED
    BY <1>3, <2>1
<1>5. m # 0 /\ Assistant \notin mails'[n].to
  BY <1>2, <1>4, ConversationAssumption DEF IInv, TypeOK
<1>6. Chain(n)'
  BY <1>2, <1>4, <1>5, ChainOfNew DEF IInv
<1>. QED
  BY <1>1, <1>4, <1>6

\* The reply, or the notice of the budget, leaves.
LEMMA SendStep == ASSUME IInv, SendReply \/ SendLimited PROVE IInv'
<1>1. PICK copies \in SUBSET {EndUser}, body \in {Words(NextId), WithFooter(Words(NextId))} :
         /\ queue # <<>> /\ Send(<<Envelope(queue[1], copies, body)>>)
         /\ body \in {Words(NextId), WithFooter(Words(NextId))}
         /\ sent' = NextId
         /\ UNCHANGED <<arrived, stored, queue>>
  <2>1. CASE SendReply
    BY <2>1 DEF SendReply, Ready, Copies
  <2>2. CASE SendLimited
    BY <2>2 DEF SendLimited, Ready
  <2>. QED
    BY <2>1, <2>2
<1>2. PICK n \in Ids : n = NextId
  BY <1>1, SendFits DEF IInv
<1>3. body \in Body
  <2>1. Words(n) \in Body
    BY DEF Words, Body
  <2>. QED
    BY <1>1, <1>2, <2>1, BodyTypes
<1>4. Envelope(queue[1], copies, body) \in Mail
  BY <1>1, <1>2, <1>3, FirstOfQueue, Answers
<1>5. Grown({n}) /\ mails'[n] = Envelope(queue[1], copies, body)
  BY <1>1, <1>2, <1>4, SendOne DEF IInv
<1>6. Chain(n)' /\ mails'[n].from = Assistant /\ mails'[n].inReplyTo = queue[1]
  BY <1>1, <1>2, <1>3, <1>5, ChainOfAnswer
<1>7. sent' \in {0} \cup DOMAIN mails' /\ Pending'
  BY <1>1, <1>2, <1>5, <1>6 DEF Grown, Pending
<1>. QED
  BY <1>1, <1>5, <1>6, <1>7, MailsOnly

\* The run ends, with or without a note.
LEMMA EndStep == ASSUME IInv, End PROVE IInv'
<1>1. Grown({}) /\ \A n \in {} : Chain(n)'
  BY Unsent DEF End, IInv
<1>2. /\ UNCHANGED <<arrived, stored>> /\ sent' \in {0} \cup DOMAIN mails'
      /\ Pending' /\ queue # <<>> /\ queue' = Tail(queue)
  BY DEF End, EndRun, Pending
<1>. QED
  BY <1>1, <1>2, MailsOnly

LEMMA FailStep == ASSUME IInv, Fail PROVE IInv'
<1>. DEFINE note == Envelope(queue[1], {}, Words(NextId))
            report == NewMail(Assistant, {Owner}, 0, {}, Words(NextId))
            second == [report EXCEPT !.body = Words(NextId + 1), !.topic = NextId + 1]
<1>1. /\ queue # <<>> /\ queue' = Tail(queue) /\ sent' = 0
      /\ UNCHANGED <<arrived, stored>>
      /\ Send(<<note>>) \/ Send(<<report>>) \/ Send(<<note, second>>)
  BY DEF Fail, EndRun
<1>2. NextId \in Ids /\ (Send(<<note, second>>) => NextId + 1 \in Ids)
  BY <1>1, SendFits DEF IInv
<1>3. note \in Mail /\ report \in Mail
  <2>1. Words(NextId) \in Body
    BY <1>2 DEF Words, Body
  <2>2. note \in Mail
    BY <1>1, <1>2, <2>1, FirstOfQueue, Answers
  <2>3. report \in Mail
    BY <1>2, FirstMail, ConversationAssumption
  <2>. QED
    BY <2>2, <2>3
<1>4. Send(<<note, second>>) => second \in Mail
  BY <1>2, FirstMail, ConversationAssumption
<1>5. /\ report.from = Assistant /\ report.to = {Owner} /\ report.inReplyTo = 0 /\ report.references = {}
      /\ second.from = Assistant /\ second.to = {Owner} /\ second.inReplyTo = 0 /\ second.references = {}
  BY DEF NewMail
<1>. HIDE DEF note, report, second
<1>6. PICK n \in Ids : n = NextId
  BY <1>2
<1>7. PICK new \in {{n}, {n, n + 1}} :
         /\ Grown(new)
         /\ \A i \in new : mails'[i] \in {note, report, second}
  BY <1>1, <1>3, <1>4, <1>6, SendOne, SendTwo DEF IInv
<1>8. ASSUME NEW i \in new PROVE Chain(i)'
  <2>1. CASE mails'[i] = note
    BY <1>1, <1>2, <1>7, <2>1, ChainOfAnswer DEF note, Words, Body
  <2>2. CASE mails'[i] \in {report, second}
    <3>1. Assistant \notin mails'[i].to /\ mails'[i].inReplyTo = 0 /\ mails'[i].references = {}
      BY <1>5, <2>2, ConversationAssumption
    <3>. QED
      BY <1>1, <1>7, <3>1, ChainOfNew DEF IInv
  <2>. QED
    BY <1>7, <2>1, <2>2
<1>. QED
  BY <1>1, <1>7, <1>8, MailsOnly DEF Pending

\* A mail that arrives is dropped, or filed in a thread of its conversation.
LEMMA ArriveStep == ASSUME IInv, NEW m \in DOMAIN mails, Arrive(m) PROVE IInv'
<1>. USE DEF IInv
<1>1. /\ Grown({}) /\ \A n \in {} : Chain(n)'
      /\ arrived' = arrived \cup {m} /\ m \notin arrived /\ mails' = mails /\ sent' = sent
  BY Unsent DEF Arrive
<1>2. CASE ~Allows(mails[m].from)
  <2>1. Chained' /\ Filed' /\ Queued' /\ Pending'
    BY <1>1, <1>2 DEF Arrive, Chained, Chain, Filed, FiledMail, Queued, Pending
  <2>. QED
    BY <1>1, <1>2, <2>1 DEF Arrive, TypeOK
<1>3. CASE Allows(mails[m].from)
  <2>1. mails[m].from \in AllowedSenders /\ mails[m].from # Assistant
    BY <1>3, ConversationAssumption DEF Allows
  <2>2. m \notin DOMAIN stored
    BY <1>1, <2>1 DEF Filed, FiledMail
  <2>3. mails[m] \in Mail /\ m \in Ids /\ Chain(m)
    BY ConversationAssumption DEF TypeOK, Ids, Chained
  <2>4. ThreadOf(m) \in DOMAIN mails /\ mails[ThreadOf(m)].topic = mails[m].topic
    <3>1. CASE Mentioned(m) = {}
      BY <3>1 DEF ThreadOf
    <3>2. CASE Mentioned(m) # {}
      <4>1. PICK r \in Mentioned(m) : ThreadOf(m) = stored[r].thread
        BY <3>2 DEF ThreadOf
      <4>2. r \in DOMAIN stored /\ (r = mails[m].inReplyTo \/ r \in mails[m].references)
        BY <4>1 DEF Mentioned
      <4>3. r # 0 /\ mails[r].topic = mails[m].topic
        BY <2>3, <4>2 DEF Chain, TypeOK
      <4>. QED
        BY <4>1, <4>2, <4>3 DEF Filed, FiledMail
    <3>. QED
      BY <3>1, <3>2
  <2>5. ThreadOf(m) \in Ids /\ Strip(mails[m].body) \in Body
    <3>1. mails[m].body \in Body
      BY <2>3 DEF Mail
    <3>2. Strip(mails[m].body) \in Body
      BY <2>3, <3>1, BodyTypes
    <3>3. DOMAIN mails \subseteq Ids
      BY ConversationAssumption DEF TypeOK, Ids
    <3>. QED
      BY <2>4, <3>2, <3>3
  <2>6. Store(m, ThreadOf(m), Strip(mails[m].body)) /\ queue' = Append(queue, m)
    BY <1>3 DEF Arrive, Accept
  <2>7. stored'[m].thread = ThreadOf(m)
    BY <1>1, <2>2, <2>5, <2>6, StoreEffect
  <2>8. FiledMail(m)'
    BY <1>1, <2>1, <2>4, <2>7 DEF FiledMail
  <2>. HIDE DEF IInv
  <2>. QED
    <3>1. arrived \subseteq arrived' /\ arrived' \subseteq DOMAIN mails' /\ m \in DOMAIN mails'
      BY <1>1 DEF IInv, TypeOK
    <3>. QED
      BY <1>1, <2>1, <2>2, <2>5, <2>6, <2>8, <3>1, OneStored
<1>. QED
  BY <1>2, <1>3

\* A task fires, or someone acts on a surface.
LEMMA TriggerStep ==
    ASSUME IInv, NEW from \in AllowedSenders \cup {Owner}, Trigger(from)
    PROVE  IInv'
<1>1. PICK n \in Ids : n = NextId
  BY SendFits DEF Trigger, IInv
<1>. DEFINE a == NewMail(from, {Assistant}, 0, {}, Words(n))
<1>2. a \in Mail /\ from # Assistant /\ Words(n) \in Body
  BY <1>1, FirstMail, ConversationAssumption DEF Words, Body
<1>3. Grown({n}) /\ mails'[n] = a
  BY <1>1, <1>2, SendOne DEF Trigger, IInv
<1>4. a.from = from /\ a.inReplyTo = 0 /\ a.references = {} /\ a.topic = NextId
  BY NewMailFields
<1>. HIDE DEF a
<1>5. /\ n \notin DOMAIN stored /\ n \in DOMAIN mails' /\ DOMAIN mails \subseteq DOMAIN mails'
      /\ Store(n, n, Words(n)) /\ queue' = Append(queue, n)
      /\ arrived' = arrived \cup {n} /\ sent' = sent
  BY <1>1, <1>3 DEF Trigger, Accept, Grown, IInv, TypeOK
<1>6. DOMAIN stored \subseteq DOMAIN stored' /\ stored'[n].thread = n
  BY <1>2, <1>5, StoreEffect DEF IInv
<1>7. Chain(n)'
  BY <1>2, <1>3, <1>4, <1>6, ChainOfNew DEF IInv
<1>8. FiledMail(n)'
  BY <1>2, <1>3, <1>4, <1>5, <1>6 DEF FiledMail
<1>9. arrived \subseteq arrived' /\ arrived' \subseteq DOMAIN mails'
  BY <1>5 DEF IInv, TypeOK
<1>. QED
  BY <1>2, <1>3, <1>4, <1>5, <1>7, <1>8, <1>9, OneStored

\* A task sends a mail of its own.
LEMMA DirectStep == ASSUME IInv, SendDirect PROVE IInv'
<1>1. PICK n \in Ids : n = NextId
  BY SendFits DEF SendDirect, IInv
<1>. DEFINE a == NewMail(Assistant, {EndUser}, 0, {}, Words(n))
<1>2. a \in Mail /\ EndUser # Assistant
  BY <1>1, FirstMail, ConversationAssumption
<1>3. Grown({n}) /\ mails'[n] = a /\ UNCHANGED <<arrived, stored, queue, sent>>
  BY <1>1, <1>2, SendOne DEF SendDirect, IInv
<1>4. a.to = {EndUser} /\ a.inReplyTo = 0 /\ a.references = {}
  BY NewMailFields
<1>. HIDE DEF a
<1>5. Chain(n)'
  BY <1>2, <1>3, <1>4, ChainOfNew DEF IInv
<1>6. sent' \in {0} \cup DOMAIN mails' /\ Pending'
  BY <1>3 DEF IInv, TypeOK, Grown, Pending
<1>. QED
  BY <1>3, <1>5, <1>6, MailsOnly

\* The reply is recorded in the thread of its run.
LEMMA RecordStep == ASSUME IInv, RecordReply PROVE IInv'
<1>1. PICK m \in DOMAIN stored : m = queue[1]
  BY FirstOfQueue DEF IInv, Pending, RecordReply
<1>2. /\ sent \in DOMAIN mails /\ mails[sent].from = Assistant /\ mails[sent].inReplyTo = m
      /\ sent \notin DOMAIN stored /\ m \in DOMAIN mails
  BY <1>1 DEF RecordReply, IInv, Pending, TypeOK
<1>3. mails[sent] \in Mail /\ sent \in Ids /\ sent # 0 /\ stored[m].thread \in Ids /\ Chain(sent)
  BY <1>2, ConversationAssumption DEF IInv, TypeOK, Ids, Chained
<1>4. /\ Store(sent, stored[m].thread, mails[sent].body)
      /\ Grown({}) /\ UNCHANGED <<mails, arrived, queue, sent>>
  BY <1>1, Unsent DEF RecordReply, IInv
<1>5. /\ DOMAIN stored' = DOMAIN stored \cup {sent} /\ stored'[sent].thread = stored[m].thread
      /\ stored'[m] = stored[m]
  BY <1>2, <1>3, <1>4, StoreEffect DEF IInv, Mail
<1>6. m # 0 /\ mails[m].topic = mails[sent].topic
  BY <1>1, <1>2, <1>3 DEF Chain, IInv, TypeOK
<1>7. FiledMail(sent)'
  BY <1>2, <1>4, <1>5, <1>6 DEF FiledMail, IInv, Filed
<1>. QED
  <2>1. mails[sent].body \in Body
    BY <1>3 DEF Mail
  <2>2. PICK n \in DOMAIN mails : n = sent
    BY <1>2
  <2>3. /\ n \in DOMAIN mails' /\ n \notin DOMAIN stored
        /\ Store(n, stored[m].thread, mails[sent].body) /\ FiledMail(n)'
    BY <1>2, <1>4, <1>7, <2>2 DEF FiledMail
  <2>4. arrived \subseteq arrived' /\ arrived' \subseteq DOMAIN mails'
    BY <1>4 DEF IInv, TypeOK
  <2>. QED
    BY <1>3, <1>4, <2>1, <2>3, <2>4, OneStored

-----------------------------------------------------------------------------
(* The theorems.                                                           *)

LEMMA InitInv == ASSUME Init PROVE IInv
BY ConversationAssumption DEF Init, IInv, TypeOK, Chained, Filed, Queued, Pending

LEMMA NextInv == ASSUME IInv, [Next]_vars PROVE IInv'
<1>1. CASE UNCHANGED vars
  BY <1>1 DEF vars, IInv, TypeOK, Chained, Chain, Filed, FiledMail, Queued, Pending
<1>2. ASSUME NEW p \in People, Write(p) PROVE IInv'
  BY <1>2, WriteStep
<1>3. ASSUME NEW m \in DOMAIN mails, Arrive(m) PROVE IInv'
  BY <1>3, ArriveStep
<1>4. CASE FireTask \/ SurfaceAction
  BY <1>4, TriggerStep DEF FireTask, SurfaceAction, Allows
<1>. QED
  BY <1>1, <1>2, <1>3, <1>4, DirectStep, SendStep, RecordStep, EndStep, FailStep DEF Next

\* Type correctness (Conversation): mails, headers, bodies and threads, whatever people write.
THEOREM TypeCorrect == Spec => []TypeOK
<1>1. Init => IInv
  BY InitInv
<1>2. IInv /\ [Next]_vars => IInv'
  BY NextInv
<1>3. IInv => TypeOK
  BY DEF IInv
<1>. QED
  BY <1>1, <1>2, <1>3, PTL DEF Spec

\* A thread holds the mails of one conversation only, in whatever order the mails arrive and
\* the replies are recorded (ThreadResolver, ReplyEnvelopeBuilder).
THEOREM OneConversationPerThread == Spec => []ThreadsStayApart
<1>1. Init => IInv
  BY InitInv
<1>2. IInv /\ [Next]_vars => IInv'
  BY NextInv
<1>3. IInv => ThreadsStayApart
  BY DEF IInv, Filed, FiledMail, ThreadsStayApart
<1>. QED
  BY <1>1, <1>2, <1>3, PTL DEF Spec

\* What people send is stored without the footer of a run, however it is quoted (strip_footer).
THEOREM FootersAreStripped == Spec => []FooterStaysOut
<1>1. Init => IInv /\ FooterStaysOut
  BY InitInv DEF Init, FooterStaysOut
<1>2. ASSUME IInv, FooterStaysOut, [Next]_vars PROVE FooterStaysOut'
  <2>. USE DEF FooterStaysOut
  <2>1. CASE UNCHANGED <<mails, stored>>
    BY <1>2, <2>1
  <2>2. CASE UNCHANGED stored /\ \A m \in DOMAIN stored : mails'[m] = mails[m]
    BY <1>2, <2>2
  <2>3. ASSUME NEW m \in DOMAIN mails, Arrive(m) PROVE FooterStaysOut'
    <3>1. CASE UNCHANGED stored
      BY <1>2, <2>3, <3>1 DEF Arrive
    <3>2. CASE Store(m, ThreadOf(m), Strip(mails[m].body))
      <4>1. Strip(mails[m].body).footer = FALSE
        <5>1. mails[m] \in Mail
          BY <1>2 DEF IInv, TypeOK
        <5>2. mails[m].body \in Body
          BY <5>1 DEF Mail
        <5>. QED
          BY <5>2 DEF Strip, Body
      <4>. QED
        BY <1>2, <2>3, <3>2, <4>1 DEF Arrive, Store
    <3>. QED
      BY <2>3, <3>1, <3>2 DEF Arrive, Accept
  <2>4. ASSUME NEW from \in AllowedSenders \cup {Owner}, Trigger(from) PROVE FooterStaysOut'
    <3>1. \A m \in DOMAIN stored : m # NextId /\ mails'[m] = mails[m]
      <4>1. PICK a : Send(<<a>>)
        BY <2>4 DEF Trigger
      <4>. QED
        BY <1>2, <4>1 DEF Send, NextId, IInv, TypeOK
    <3>2. Store(NextId, NextId, Words(NextId)) /\ Words(NextId).footer = FALSE
      BY <2>4 DEF Trigger, Accept, Words
    <3>. QED
      BY <1>2, <3>1, <3>2 DEF Store
  <2>5. CASE RecordReply
    BY <1>2, <2>5, ConversationAssumption DEF RecordReply, Store, IInv, Pending
  <2>6. CASE \E p \in People : Write(p)
    <3>1. PICK a : Send(<<a>>)
      BY <2>6 DEF Write
    <3>2. UNCHANGED stored
      BY <2>6 DEF Write
    <3>. QED
      BY <1>2, <2>2, <3>1, <3>2 DEF Send, IInv, TypeOK
  <2>7. CASE SendDirect \/ SendReply \/ SendLimited
    <3>1. PICK a : Send(<<a>>)
      BY <2>7 DEF SendDirect, SendReply, SendLimited
    <3>2. UNCHANGED stored
      BY <2>7 DEF SendDirect, SendReply, SendLimited
    <3>. QED
      BY <1>2, <2>2, <3>1, <3>2 DEF Send, IInv, TypeOK
  <2>8. CASE Fail
    <3>1. PICK a, b : Send(<<a>>) \/ Send(<<a, b>>)
      BY <2>8 DEF Fail
    <3>2. UNCHANGED stored
      BY <2>8 DEF Fail
    <3>. QED
      BY <1>2, <2>2, <3>1, <3>2 DEF Send, IInv, TypeOK
  <2>9. CASE UNCHANGED vars \/ End
    BY <2>1, <2>9 DEF vars, End
  <2>10. CASE FireTask \/ SurfaceAction
    BY <2>4, <2>10 DEF FireTask, SurfaceAction, Allows
  <2>. QED
    BY <1>2, <2>3, <2>5, <2>6, <2>7, <2>8, <2>9, <2>10 DEF Next
<1>3. IInv /\ [Next]_vars => IInv'
  BY NextInv
<1>. QED
  BY <1>1, <1>2, <1>3, PTL DEF Spec

\* The references of a mail that answers a mail of a run lead to the thread of that run.
LEMMA MentionLeadsToTheRun ==
    ASSUME IInv, NEW m \in DOMAIN mails, NEW r \in DOMAIN mails, mails[m].inReplyTo = r,
           NEW p \in DOMAIN mails, mails[r].from = Assistant, mails[r].inReplyTo = p,
           mails[m].references # {} \/ r \in DOMAIN stored
    PROVE  ThreadOf(m) = stored[p].thread
<1>. USE DEF IInv
<1>1. Chain(m) /\ Chain(r) /\ Chain(p) /\ m \in Nat /\ r \in Nat /\ p \in Nat /\ p # 0 /\ r # 0
  BY DEF Chained, TypeOK
<1>2. /\ p \in DOMAIN stored /\ p < r
      /\ mails[r].references = mails[p].references \cup {p}
      /\ \A x \in mails[p].references : x \in Nat /\ x < p
  BY <1>1 DEF Chain
<1>3. CASE r \in DOMAIN stored
  <2>1. Mentioned(m) = {r}
    BY <1>3 DEF Mentioned
  <2>. QED
    BY <1>3, <2>1 DEF ThreadOf, Filed, FiledMail
<1>4. CASE r \notin DOMAIN stored
  <2>1. mails[m].references = mails[p].references \cup {p, r}
    BY <1>1, <1>2, <1>4 DEF Chain
  <2>. DEFINE indexed == mails[m].references \cap DOMAIN stored
  <2>2. p \in indexed /\ \A x \in indexed : x = p \/ (x \in Nat /\ x < p)
    BY <1>2, <1>4, <2>1
  <2>3. {x \in indexed : \A y \in indexed : y <= x} = {p}
    <3>. HIDE DEF indexed
    <3>. QED
      BY <1>1, <2>2
  <2>4. Mentioned(m) = {p}
    BY <1>4, <2>3 DEF Mentioned
  <2>. QED
    BY <2>4 DEF ThreadOf
<1>. QED
  BY <1>3, <1>4

\* An answer to what the assistant sent in a run joins the thread of that run, also when it
\* overtakes the record of the reply or the reply was never recorded.
THEOREM AnswersAreFiledWithTheirRun == Spec => AnswersJoinTheThread
<1>. DEFINE Joins ==
        \A m \in DOMAIN stored' \ DOMAIN stored :
          LET r == mails'[m].inReplyTo
          IN  /\ mails'[m].from \in People /\ r # 0
              /\ mails'[r].from = Assistant /\ mails'[r].inReplyTo # 0
              /\ mails'[m].references # {} \/ r \in DOMAIN stored
              => stored'[m].thread = stored[mails'[r].inReplyTo].thread
<1>1. ASSUME IInv, [Next]_vars PROVE [Joins]_vars
  <2>1. CASE UNCHANGED stored
    BY <2>1
  <2>2. ASSUME NEW n \in DOMAIN mails, Arrive(n), Allows(mails[n].from) PROVE Joins
    <3>1. SUFFICES ASSUME NEW m \in DOMAIN stored' \ DOMAIN stored,
                          mails'[m].from \in People, mails'[m].inReplyTo # 0,
                          mails'[mails'[m].inReplyTo].from = Assistant,
                          mails'[mails'[m].inReplyTo].inReplyTo # 0,
                          mails'[m].references # {} \/ mails'[m].inReplyTo \in DOMAIN stored
                   PROVE  stored'[m].thread = stored[mails'[mails'[m].inReplyTo].inReplyTo].thread
      OBVIOUS
    <3>2. m = n /\ stored'[m].thread = ThreadOf(m) /\ mails' = mails
      BY <2>2, <3>1 DEF Arrive, Accept, Store
    <3>3. PICK r \in DOMAIN mails : r = mails[m].inReplyTo
      BY <1>1, <3>1, <3>2 DEF IInv, Chained, Chain, TypeOK
    <3>4. PICK p \in DOMAIN mails : p = mails[r].inReplyTo
      BY <1>1, <3>1, <3>2, <3>3 DEF IInv, Chained, Chain, TypeOK
    <3>5. /\ m \in DOMAIN mails /\ mails[r].from = Assistant
          /\ mails[m].references # {} \/ r \in DOMAIN stored
      BY <3>1, <3>2, <3>3
    <3>6. ThreadOf(m) = stored[p].thread
      BY <1>1, <3>3, <3>4, <3>5, MentionLeadsToTheRun
    <3>. QED
      BY <3>2, <3>3, <3>4, <3>6
  <2>3. ASSUME NEW from \in AllowedSenders \cup {Owner}, Trigger(from) PROVE Joins
    <3>1. NextId \in Ids
      BY <1>1, <2>3, SendFits DEF Trigger, IInv
    <3>. DEFINE a == NewMail(from, {Assistant}, 0, {}, Words(NextId))
    <3>2. a \in Mail
      BY <1>1, <3>1, FirstMail, ConversationAssumption
    <3>3. mails'[NextId] = a
      BY <1>1, <2>3, <3>2, SendOne DEF Trigger, IInv
    <3>4. \A m \in DOMAIN stored' \ DOMAIN stored : m = NextId
      BY <2>3 DEF Trigger, Accept, Store
    <3>5. a.inReplyTo = 0
      BY NewMailFields
    <3>. QED
      BY <3>3, <3>4, <3>5
  <2>4. CASE RecordReply
    BY <1>1, <2>4, ConversationAssumption DEF RecordReply, Store, IInv, Pending
  <2>5. CASE FireTask \/ SurfaceAction
    BY <2>3, <2>5 DEF FireTask, SurfaceAction, Allows
  <2>6. ASSUME NEW n \in DOMAIN mails, Arrive(n) PROVE [Joins]_vars
    BY <2>1, <2>2, <2>6 DEF Arrive
  <2>. QED
    BY <1>1, <2>1, <2>4, <2>5, <2>6 DEF Next, vars, Write, SendDirect, SendReply, SendLimited, End, Fail
<1>2. Init => IInv
  BY InitInv
<1>3. IInv /\ [Next]_vars => IInv'
  BY NextInv
<1>. QED
  BY <1>1, <1>2, <1>3, PTL DEF Spec, AnswersJoinTheThread

\* The end user is among the readers of an answer, and it is recorded as it was sent.
Visible ==
    \A m \in DOMAIN mails :
        mails[m].from = Assistant /\ mails[m].body.footer => EndUser \in mails[m].to

Recorded ==
    \A m \in DOMAIN stored : mails[m].from = Assistant => stored[m].body = mails[m].body

\* A step that sends what is visible, or nothing, keeps all answers visible.
LEMMA VisibleKept ==
    ASSUME Visible, NEW new, Grown(new),
           \A n \in new : mails'[n].from # Assistant \/ ~mails'[n].body.footer \/ EndUser \in mails'[n].to
    PROVE  Visible'
BY DEF Visible, Grown

LEMMA VisibleStep ==
    ASSUME IInv, Visible, AllowedSenders \subseteq {Owner, EndUser}, [Next]_vars
    PROVE  Visible'
<1>1. CASE mails' = mails
  BY <1>1 DEF Visible
<1>2. ASSUME NEW a, a \in Mail, Send(<<a>>),
             a.from # Assistant \/ ~a.body.footer \/ EndUser \in a.to
      PROVE  Visible'
  BY <1>2, SendOne, VisibleKept DEF IInv
<1>3. \A i \in Ids : Words(i) \in Body /\ ~Words(i).footer
  BY DEF Words, Body
<1>4. ASSUME NEW p \in People, Write(p) PROVE Visible'
  <2>1. PICK r, references, body : Send(<<NewMail(p, {Assistant}, r, references, body)>>)
    BY <1>4 DEF Write
  <2>. DEFINE a == NewMail(p, {Assistant}, r, references, body)
  <2>2. a.from # Assistant
    BY NewMailFields, ConversationAssumption
  <2>. HIDE DEF a
  <2>3. \A m \in DOMAIN mails' : (m \in DOMAIN mails /\ mails'[m] = mails[m]) \/ mails'[m] = a
    BY <2>1 DEF Send, a, IInv, TypeOK
  <2>. QED
    BY <2>2, <2>3 DEF Visible
<1>5. ASSUME NEW from \in AllowedSenders \cup {Owner}, Trigger(from) PROVE Visible'
  <2>. DEFINE a == NewMail(from, {Assistant}, 0, {}, Words(NextId))
  <2>1. Send(<<a>>)
    BY <1>5 DEF Trigger
  <2>2. NextId \in Ids
    BY <2>1, SendFits DEF IInv
  <2>3. a \in Mail
    BY <2>2, FirstMail, ConversationAssumption
  <2>4. a.from # Assistant
    BY NewMailFields, ConversationAssumption
  <2>. HIDE DEF a
  <2>. QED
    BY <1>2, <2>1, <2>3, <2>4
<1>6. CASE SendDirect
  <2>. DEFINE a == NewMail(Assistant, {EndUser}, 0, {}, Words(NextId))
  <2>1. Send(<<a>>)
    BY <1>6 DEF SendDirect
  <2>2. NextId \in Ids
    BY <2>1, SendFits DEF IInv
  <2>3. a \in Mail
    BY <2>2, FirstMail, ConversationAssumption
  <2>4. EndUser \in a.to
    BY NewMailFields
  <2>. HIDE DEF a
  <2>. QED
    BY <1>2, <2>1, <2>3, <2>4
<1>7. ASSUME queue # <<>>, NEW copies \in SUBSET {EndUser}, NEW body,
             Send(<<Envelope(queue[1], copies, body)>>),
             \/ body = Words(NextId)
             \/ body = WithFooter(Words(NextId)) /\ copies = Copies(queue[1])
      PROVE  Visible'
  <2>1. PICK m \in DOMAIN mails : m = queue[1]
    BY <1>7, FirstOfQueue
  <2>2. mails[m].from \in {Owner, EndUser} /\ mails[m].from \in AllowedSenders \cup {Owner}
    BY <1>7, <2>1, FirstOfQueue
  <2>3. NextId \in Ids
    BY <1>7, SendFits DEF IInv
  <2>4. body \in Body
    BY <1>3, <1>7, <2>3, BodyTypes
  <2>. DEFINE a == Envelope(m, copies, body)
  <2>5. /\ a \in Mail
        /\ a = [from |-> Assistant, to |-> {mails[m].from} \cup copies, inReplyTo |-> m,
                references |-> mails[m].references \cup {m}, body |-> body, topic |-> mails[m].topic]
    BY <2>2, <2>3, <2>4, Answers
  <2>. HIDE DEF a
  <2>6. a.body = body /\ a.to = {mails[m].from} \cup copies
    BY <2>5
  <2>7. ~a.body.footer \/ EndUser \in a.to
    <3>1. CASE body = Words(NextId)
      BY <1>3, <2>3, <2>6, <3>1
    <3>2. CASE copies = Copies(m)
      BY <2>2, <2>6, <3>2 DEF Copies
    <3>. QED
      BY <1>7, <2>1, <3>1, <3>2
  <2>8. Send(<<a>>)
    BY <1>7, <2>1 DEF a
  <2>. QED
    BY <1>2, <2>5, <2>7, <2>8
<1>8. CASE SendReply \/ SendLimited
  BY <1>7, <1>8 DEF SendReply, SendLimited, Ready, Copies
<1>9. CASE Fail
  <2>. DEFINE note == Envelope(queue[1], {}, Words(NextId))
              report == NewMail(Assistant, {Owner}, 0, {}, Words(NextId))
              second == [report EXCEPT !.body = Words(NextId + 1), !.topic = NextId + 1]
  <2>1. queue # <<>> /\ (Send(<<note>>) \/ Send(<<report>>) \/ Send(<<note, second>>))
    BY <1>9 DEF Fail
  <2>2. NextId \in Ids /\ (Send(<<note, second>>) => NextId + 1 \in Ids)
    BY <2>1, SendFits DEF IInv
  <2>3. PICK m \in DOMAIN mails : m = queue[1]
    BY <2>1, FirstOfQueue
  <2>4. mails[m].from \in AllowedSenders \cup {Owner}
    BY <2>1, <2>3, FirstOfQueue
  <2>5. ~note.body.footer
    <3>1. Envelope(m, {}, Words(NextId)) =
             [from |-> Assistant, to |-> {mails[m].from} \cup {}, inReplyTo |-> m,
              references |-> mails[m].references \cup {m}, body |-> Words(NextId),
              topic |-> mails[m].topic]
      BY <1>3, <2>2, <2>4, Answers
    <3>. QED
      BY <1>3, <2>2, <2>3, <3>1
  <2>6. ~report.body.footer /\ (Send(<<note, second>>) => ~second.body.footer)
    BY <1>3, <2>2 DEF NewMail
  <2>. HIDE DEF note, report, second
  <2>7. \A i \in DOMAIN mails' :
           \/ i \in DOMAIN mails /\ mails'[i] = mails[i]
           \/ ~mails'[i].body.footer
    <3>1. CASE Send(<<note>>)
      BY <2>5, <3>1 DEF Send, IInv, TypeOK
    <3>2. CASE Send(<<report>>)
      BY <2>6, <3>2 DEF Send, IInv, TypeOK
    <3>3. CASE Send(<<note, second>>)
      BY <2>5, <2>6, <3>3 DEF Send, IInv, TypeOK
    <3>. QED
      BY <2>1, <3>1, <3>2, <3>3
  <2>. QED
    BY <2>7 DEF Visible
<1>10. CASE FireTask \/ SurfaceAction
  BY <1>5, <1>10 DEF FireTask, SurfaceAction, Allows
<1>11. ASSUME NEW m \in DOMAIN mails, Arrive(m) PROVE Visible'
  BY <1>1, <1>11 DEF Arrive
<1>. QED
  BY <1>1, <1>4, <1>6, <1>8, <1>9, <1>10, <1>11 DEF Next, vars, RecordReply, End

LEMMA RecordedStep ==
    ASSUME IInv, Recorded, [Next]_vars
    PROVE  Recorded'
<1>1. CASE UNCHANGED stored
  <2>1. \A m \in DOMAIN stored : mails'[m] = mails[m]
    <3>1. PICK a, b : mails' = mails \/ Send(<<a>>) \/ Send(<<a, b>>)
      <4>1. CASE \E p \in People : Write(p)
        BY <4>1 DEF Write
      <4>2. CASE (\E m \in DOMAIN mails : Arrive(m)) \/ RecordReply \/ End \/ UNCHANGED vars
        BY <4>2 DEF Arrive, RecordReply, End, vars
      <4>3. CASE FireTask \/ SurfaceAction \/ SendDirect \/ SendReply \/ SendLimited
        BY <4>3 DEF FireTask, SurfaceAction, Trigger, SendDirect, SendReply, SendLimited
      <4>4. CASE Fail
        BY <4>4 DEF Fail
      <4>. QED
        BY <4>1, <4>2, <4>3, <4>4 DEF Next
    <3>2. CASE mails' = mails
      BY <3>2
    <3>3. CASE Send(<<a>>)
      BY <3>3 DEF Send, IInv, TypeOK
    <3>4. CASE Send(<<a, b>>)
      BY <3>4 DEF Send, IInv, TypeOK
    <3>. QED
      BY <3>1, <3>2, <3>3, <3>4
  <2>. QED
    BY <1>1, <2>1 DEF Recorded
<1>2. ASSUME NEW m \in DOMAIN mails, Arrive(m) PROVE Recorded'
  <2>1. CASE Allows(mails[m].from)
    BY <1>2, <2>1, ConversationAssumption DEF Arrive, Accept, Store, Allows, Recorded
  <2>2. CASE ~Allows(mails[m].from)
    BY <1>1, <1>2, <2>2 DEF Arrive
  <2>. QED
    BY <2>1, <2>2
<1>3. ASSUME NEW from \in AllowedSenders \cup {Owner}, Trigger(from) PROVE Recorded'
  <2>. DEFINE a == NewMail(from, {Assistant}, 0, {}, Words(NextId))
  <2>1. Send(<<a>>) /\ NextId \in Ids
    BY <1>3, SendFits DEF Trigger, IInv
  <2>2. a \in Mail
    BY <2>1, FirstMail, ConversationAssumption
  <2>3. a.from # Assistant
    BY NewMailFields, ConversationAssumption
  <2>4. mails'[NextId] = a /\ \A m \in DOMAIN stored : mails'[m] = mails[m] /\ m # NextId
    BY <2>1, <2>2, SendOne DEF IInv, TypeOK, Grown
  <2>. HIDE DEF a
  <2>. QED
    BY <1>3, <2>3, <2>4 DEF Trigger, Accept, Store, Recorded
<1>4. CASE RecordReply
  BY <1>4 DEF RecordReply, Store, Recorded
<1>5. CASE FireTask \/ SurfaceAction
  BY <1>3, <1>5 DEF FireTask, SurfaceAction, Allows
<1>. QED
  BY <1>1, <1>2, <1>4, <1>5 DEF Next, vars, Write, SendDirect, SendReply, SendLimited, End, Fail

\* Whoever asks, the end user reads what the assistant answers and puts on record, when owner
\* and end user are the only ones who may write to it (execute_run, participants.py).
THEOREM EndUserIsCopied ==
    ASSUME AllowedSenders \subseteq {Owner, EndUser}
    PROVE  Spec => []EndUserReadsAnswers
<1>1. Init => IInv /\ Visible /\ Recorded
  BY InitInv DEF Init, Visible, Recorded
<1>2. IInv /\ Visible /\ Recorded /\ [Next]_vars => IInv' /\ Visible' /\ Recorded'
  BY NextInv, VisibleStep, RecordedStep
<1>3. IInv /\ Visible /\ Recorded /\ FooterStaysOut => EndUserReadsAnswers
  <2>1. ASSUME IInv, NEW m \in DOMAIN stored
        PROVE  m \in DOMAIN mails /\ mails[m].from \in People \cup {Assistant}
    <3>1. mails[m] \in Mail /\ m \in DOMAIN mails
      BY <2>1 DEF IInv, TypeOK
    <3>. QED
      BY <3>1 DEF Mail
  <2>2. ASSUME IInv, NEW m \in DOMAIN stored PROVE stored[m].body.footer \in BOOLEAN
    BY <2>2 DEF IInv, TypeOK, Body
  <2>. QED
    BY <2>1, <2>2 DEF Visible, Recorded, FooterStaysOut, EndUserReadsAnswers
<1>. QED
  BY <1>1, <1>2, <1>3, FootersAreStripped, PTL DEF Spec
=============================================================================
