\* One person who answers below the quote.
CONSTANTS
    Owner = owner
    EndUser = owner
    People = {owner}
    AllowedSenders = {owner}
    Assistant = assistant
    MaxMails = 4
SPECIFICATION Spec
CHECK_DEADLOCK FALSE
INVARIANTS
    WordsAreStored
