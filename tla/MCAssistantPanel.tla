-------------------------- MODULE MCAssistantPanel --------------------------
EXTENDS AssistantPanel
=============================================================================
