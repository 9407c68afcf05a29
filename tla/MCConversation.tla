---------------------------- MODULE MCConversation ----------------------------
(***************************************************************************)
(* Constants of the runs of Conversation.                                   *)
(***************************************************************************)
EXTENDS ConversationProps
===============================================================================
