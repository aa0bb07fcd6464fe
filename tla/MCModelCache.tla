------------------------------ MODULE MCModelCache ------------------------------
(* Values for model checking ModelCache: two models, one of which may also be  *)
(* downloaded to a path of its own.                                            *)
EXTENDS ModelCache

MCPaths == {"chat.gguf", "small.gguf", "files/chat.gguf"}
MCNames == {"chat.gguf", "small.gguf"}
MCFiles == {"files/chat.gguf"}
mcBase  == [p \in MCPaths |-> IF p = "small.gguf" THEN p ELSE "chat.gguf"]
=============================================================================
