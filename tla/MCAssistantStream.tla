------------------------- MODULE MCAssistantStream --------------------------
EXTENDS AssistantStream
=============================================================================
