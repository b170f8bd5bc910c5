----------------------------- MODULE MCLLMFilter -----------------------------
(* Instances of LLMFilter for TLC. *)
EXTENDS LLMFilter
=============================================================================
