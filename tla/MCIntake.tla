------------------------------ MODULE MCIntake ------------------------------
(* Small instances of Intake for TLC.                                      *)
EXTENDS Intake, TLC

\* Mails and assistants, as model values. ghost is mentioned but never received.
CONSTANTS root, reply, ghost, nudge, call, alice, bob

\* Handlers, as model values: requests are interchangeable.
CONSTANTS h1, h2

HandlerSymmetry == Permutations(Handlers)

MCMentions == [m \in Mails |-> IF m = reply THEN <<ghost, root>> ELSE <<>>]

MCKind == [m \in Mails |-> CASE m = nudge -> "scheduled" [] m = call -> "surface"
                             [] OTHER -> "email"]

\* The webhook: root reaches two assistants, reply one that may know root only
\* from the other, and one that does not allow its sender.
MailDeliverable == {<<root, alice>>, <<root, bob>>, <<reply, alice>>, <<reply, bob>>}
MailRoutable == MailDeliverable \ {<<reply, bob>>}

\* The other callers: the scheduled tick and a surface, beside one mail.
CallDeliverable == {<<root, alice>>, <<nudge, alice>>, <<call, alice>>}

\* One mail, for one assistant.
OneDeliverable == {<<root, alice>>}
=============================================================================
