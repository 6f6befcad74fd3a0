---------------------------- MODULE MCProviderChain ----------------------------
(* Small instances of ProviderChain for TLC. *)
EXTENDS ProviderChain

CONSTANTS primary, fallback

MCChain == <<primary, fallback>>
================================================================================
