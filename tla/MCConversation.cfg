\* Owner, end user and a stranger; four mails.
CONSTANTS
    Owner = owner
    EndUser = user
    People = {owner, user, stranger}
    AllowedSenders = {owner, user}
    Assistant = assistant
    MaxMails = 4
SPECIFICATION Spec
CHECK_DEADLOCK FALSE
INVARIANTS
    ThreadsStayApart
    FooterStaysOut
    EndUserReadsAnswers
PROPERTIES
    AnswersJoinTheThread
