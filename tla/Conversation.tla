---------------------------- MODULE Conversation ----------------------------
(***************************************************************************)
(* The correspondence of one assistant: what people, scheduled tasks and   *)
(* surfaces send to it, what it sends back, with the headers and footers   *)
(* that ReplyEnvelopeBuilder and the error envelopes put on a mail, and    *)
(* how ThreadResolver files what comes in. A mail may be answered before   *)
(* it is recorded, quoted above or below the answer, and by a client that  *)
(* drops the References.                                                   *)
(*                                                                         *)
(* Intake has the transactions and repeated deliveries of one mail,        *)
(* RunExecution the failures of a run; here an accepted mail is one step   *)
(* and its run two, the sending and the recording.                         *)
(***************************************************************************)
EXTENDS Naturals, Sequences, FiniteSets

CONSTANTS
    People,
    Owner, EndUser,  \* whom the assistant belongs to and whom it is for
    AllowedSenders,
    Assistant,       \* its inbound address
    MaxMails         \* bound: mails in the world

ASSUME ConversationAssumption ==
    /\ Owner \in People /\ EndUser \in People
    /\ AllowedSenders \subseteq People
    /\ Assistant \notin People
    /\ MaxMails \in Nat

VARIABLES
    mails,    \* all mails, those of the assistant too; a Message-Id is a position
    arrived,  \* mails to the assistant that reached it
    stored,   \* email_messages and message_index: the thread and body of each
    queue,    \* stored mails whose run has not ended, in the order of their jobs
    sent      \* the reply that the first run of the queue has sent, or 0

vars == <<mails, arrived, stored, queue, sent>>

Ids == 1..MaxMails

\* A body: whose words it has above its first footer, whose below, and if it has one.
Body == [above: SUBSET Ids, below: SUBSET Ids, footer: BOOLEAN]

\* A mail, with In-Reply-To (0 for none) and References. topic is a history field: the
\* mail that began its conversation.
Mail == [from: People \cup {Assistant}, to: SUBSET (People \cup {Assistant}),
         inReplyTo: 0..MaxMails, references: SUBSET Ids, body: Body, topic: Ids]

TypeOK ==
    /\ mails \in Seq(Mail)
    /\ Len(mails) <= MaxMails
    /\ arrived \subseteq DOMAIN mails
    /\ DOMAIN stored \subseteq DOMAIN mails
    /\ stored \in [DOMAIN stored -> [thread: Ids, body: Body]]
    /\ queue \in Seq(DOMAIN stored)
    /\ sent \in {0} \cup DOMAIN mails

Init ==
    /\ mails = <<>>
    /\ arrived = {}
    /\ stored = [m \in {} |-> 0]
    /\ queue = <<>>
    /\ sent = 0

NextId == Len(mails) + 1

\* The words of mail m alone, and with the footer that render_run_footer appends.
Words(m) == [above |-> {m}, below |-> {}, footer |-> FALSE]
WithFooter(body) == [body EXCEPT !.footer = TRUE]

\* A mail that quotes a body below its words, or above them.
QuoteBelow(m, quote) == [quote EXCEPT !.above = @ \cup {m}]
QuoteAbove(m, quote) ==
    IF quote.footer THEN [quote EXCEPT !.below = @ \cup {m}] ELSE QuoteBelow(m, quote)

\* A mail that answers mail p, or begins a conversation when p is 0.
NewMail(from, to, p, references, body) ==
    [from |-> from, to |-> to, inReplyTo |-> p, references |-> references, body |-> body,
     topic |-> IF p = 0 THEN NextId ELSE mails[p].topic]

Send(newMails) ==
    /\ Len(mails) + Len(newMails) <= MaxMails
    /\ mails' = mails \o newMails

-----------------------------------------------------------------------------
(* Accepting a mail.                                                       *)

\* Mutant: a quoted footer is not recognised.
MutStrip(body) == body

\* strip_footer: everything from the first footer on is cut off, also below a quote.
Strip(body) == [body EXCEPT !.below = {}, !.footer = FALSE]

\* What message_index finds: In-Reply-To first, then the References from the last one.
\* References are in the order of the conversation, so the last one is the largest.
Mentioned(m) ==
    LET indexed == mails[m].references \cap DOMAIN stored
    IN  IF mails[m].inReplyTo \in DOMAIN stored THEN {mails[m].inReplyTo}
        ELSE {r \in indexed : \A s \in indexed : s <= r}

\* Mutant: without a mention, a mail joins the thread of the latest one.
MutThreadOf(m) ==
    IF Mentioned(m) # {} THEN stored[CHOOSE r \in Mentioned(m) : TRUE].thread
    ELSE IF queue # <<>> THEN stored[queue[Len(queue)]].thread ELSE m

\* ThreadResolver: a new thread is known by its root message.
ThreadOf(m) ==
    IF Mentioned(m) # {} THEN stored[CHOOSE r \in Mentioned(m) : TRUE].thread ELSE m

Store(m, thread, body) ==
    stored' = [n \in DOMAIN stored \cup {m} |->
                  IF n = m THEN [thread |-> thread, body |-> body] ELSE stored[n]]

Accept(m, thread, body) ==
    /\ Store(m, thread, body)
    /\ queue' = Append(queue, m)

\* is_sender_allowed, for an assistant that is active.
Allows(p) == p \in AllowedSenders

\* Someone writes to the assistant, about nothing before or in answer to a mail of his
\* or to him, with the quote below or above.
Write(p) ==
    /\ \E r \in {0} \cup {m \in DOMAIN mails : mails[m].from = p \/ p \in mails[m].to},
          keeps \in BOOLEAN :
          LET references == IF r = 0 \/ ~keeps THEN {} ELSE mails[r].references \cup {r}
              bodies == IF r = 0 THEN {Words(NextId)}
                        ELSE {QuoteBelow(NextId, mails[r].body), QuoteAbove(NextId, mails[r].body)}
          IN  \E body \in bodies : Send(<<NewMail(p, {Assistant}, r, references, body)>>)
    /\ UNCHANGED <<arrived, stored, queue, sent>>

\* The webhook gets a mail, and accepts or drops it.
Arrive(m) ==
    /\ Assistant \in mails[m].to /\ m \notin arrived
    /\ arrived' = arrived \cup {m}
    /\ IF Allows(mails[m].from)
       THEN Accept(m, ThreadOf(m), Strip(mails[m].body))
       ELSE UNCHANGED <<stored, queue>>
    /\ UNCHANGED <<mails, sent>>

\* A synthetic mail is accepted without mentions: of a scheduled task in the end user's
\* name, which must be an allowed sender, or of a surface in the owner's.
Trigger(from) ==
    /\ Send(<<NewMail(from, {Assistant}, 0, {}, Words(NextId))>>)
    /\ arrived' = arrived \cup {NextId}
    /\ Accept(NextId, NextId, Words(NextId))
    /\ UNCHANGED sent

FireTask == Allows(EndUser) /\ Trigger(EndUser)

SurfaceAction == Trigger(Owner)

\* send_scheduled_direct_email: a mail to the end user that is not stored.
SendDirect ==
    /\ Send(<<NewMail(Assistant, {EndUser}, 0, {}, Words(NextId))>>)
    /\ UNCHANGED <<arrived, stored, queue, sent>>

-----------------------------------------------------------------------------
(* Executing the first run of the queue.                                   *)

Ready == queue # <<>> /\ sent = 0

EndRun == queue' = Tail(queue) /\ sent' = 0

\* Mutant: the References of a reply end before the mail it answers.
MutReferences(m) == mails[m].references

References(m) == mails[m].references \cup {m}

\* Mutant: the end user gets no copy.
MutCopies(m) == {}

\* The end user is copied on what the owner is answered.
Copies(m) == IF mails[m].from = Owner THEN {EndUser} \ {Owner} ELSE {}

\* The envelope of a mail that answers mail m.
Envelope(m, copies, body) ==
    NewMail(Assistant, {mails[m].from} \cup copies, m, References(m), body)

\* send_reply with the answer of the agent and the footer of its run.
SendReply ==
    /\ Ready
    /\ LET m == queue[1]
       IN  Send(<<Envelope(m, Copies(m), WithFooter(Words(NextId)))>>)
    /\ sent' = NextId
    /\ UNCHANGED <<arrived, stored, queue>>

\* build_budget_limit_reply: no model, no footer, no copy.
SendLimited ==
    /\ Ready
    /\ Send(<<Envelope(queue[1], {}, Words(NextId))>>)
    /\ sent' = NextId
    /\ UNCHANGED <<arrived, stored, queue>>

\* record_completion: the mail and its index entry, in the thread of the run.
RecordReply ==
    /\ sent # 0 /\ sent \notin DOMAIN stored
    /\ Store(sent, stored[queue[1]].thread, mails[sent].body)
    /\ UNCHANGED <<mails, arrived, queue, sent>>

\* The run is completed, exits quietly, or is cut off by the death of the worker.
End ==
    /\ queue # <<>>
    /\ EndRun
    /\ UNCHANGED <<mails, arrived, stored>>

\* _notify_run_failed, before the reply, or after it with or without its record: a note in the conversation and
\* one to the owner, each of which may fail; neither is stored.
Fail ==
    /\ queue # <<>>
    /\ LET note == Envelope(queue[1], {}, Words(NextId))
           report == NewMail(Assistant, {Owner}, 0, {}, Words(NextId))
       IN  \/ Send(<<note>>)
           \/ Send(<<report>>)
           \/ Send(<<note, [report EXCEPT !.body = Words(NextId + 1), !.topic = NextId + 1]>>)
    /\ EndRun
    /\ UNCHANGED <<arrived, stored>>

Next ==
    \/ \E p \in People : Write(p)
    \/ \E m \in DOMAIN mails : Arrive(m)
    \/ FireTask \/ SurfaceAction \/ SendDirect
    \/ SendReply \/ SendLimited \/ RecordReply \/ End \/ Fail

Spec == Init /\ [][Next]_vars

-----------------------------------------------------------------------------
(* Properties.                                                             *)

\* An answer to what the assistant sent in a run joins the thread of that run, also
\* when it overtakes the record of the reply, when the reply was never recorded and
\* when it answers the note about a failure: its References, or the index entry of the
\* reply for a client that drops them, lead there (ReplyEnvelopeBuilder, ThreadResolver).
AnswersJoinTheThread ==
    [][\A m \in DOMAIN stored' \ DOMAIN stored :
          LET r == mails'[m].inReplyTo
          IN  /\ mails'[m].from \in People /\ r # 0
              /\ mails'[r].from = Assistant /\ mails'[r].inReplyTo # 0
              /\ mails'[m].references # {} \/ r \in DOMAIN stored
              => stored'[m].thread = stored[mails'[r].inReplyTo].thread]_vars

\* A thread holds the mails of one conversation only: none that answers nothing, or
\* that belongs to another conversation, is filed in it.
ThreadsStayApart ==
    \A m, n \in DOMAIN stored :
        stored[m].thread = stored[n].thread => mails[m].topic = mails[n].topic

\* What people send is stored without the footer of a run, however it is quoted
\* (test_runtime.py: it "must NOT come back into the agent's input").
FooterStaysOut ==
    \A m \in DOMAIN stored :
        mails[m].from \in People => ~stored[m].body.footer

\* Whoever asks, the end user reads what the assistant answered and put on record,
\* when owner and end user are the only ones who may write to it
\* (participants.py: "in an owner-initiated thread, the end-user will read what you write").
EndUserReadsAnswers ==
    \A m \in DOMAIN stored :
        stored[m].body.footer => EndUser \in mails[m].to

\* The design document (Email body handling): a body is stored as it was received,
\* "No quoted-reply stripping".
WordsAreStored ==
    \A m \in DOMAIN stored : m \in stored[m].body.above \cup stored[m].body.below
=============================================================================
