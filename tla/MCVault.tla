------------------------------- MODULE MCVault -------------------------------
(* A small instance of Vault for TLC: one identity in two browsers.           *)
EXTENDS Vault

CONSTANTS desk, phone, o1, o2
================================================================================
