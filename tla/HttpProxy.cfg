SPECIFICATION Spec
CONSTANTS
    Dialogs <- MCDialogs
    Earlier <- MCEarlier
INVARIANTS SavedAsSaid ParsersAccept EverythingRecorded ReplaysTheRecorded
