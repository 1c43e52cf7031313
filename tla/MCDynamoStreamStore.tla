------------------------ MODULE MCDynamoStreamStore ------------------------
(* Small instances of DynamoStreamStore: one or two streaming tool calls.   *)
EXTENDS DynamoStreamStore

CONSTANTS a, b
=============================================================================
