\* Three servers; a send, the inbox and the chat view at the same time, and two failures.
CONSTANTS
    NumServers = 3
    Message = {m1}
    Inbox = {inbox}
    View = {view}
    MaxFailures = 2
SPECIFICATION Spec
INVARIANTS TypeOK GivesUpForAReason ViewIsComplete
PROPERTIES ImplementsInbox FindsTheServer
