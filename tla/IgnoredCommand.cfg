\* All commands are done, all timers have fired: the channel may rest.
CHECK_DEADLOCK FALSE

SPECIFICATION Spec

CONSTANTS
    Fields <- MCFields
    Commands <- MCCommands
    Foreign <- MCForeign
    FieldsOf <- MCFieldsOf
    Signature <- MCSignature
    MaxOutages = 0

PROPERTY ForeignIsShown
