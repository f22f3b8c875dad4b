-------------------------- MODULE MCBrowserSession --------------------------
(* BrowserSession with two tabs, whose names mean nothing, and two users. *)
EXTENDS BrowserSession, TLC

SomeNames == Permutations(Tabs) \cup Permutations(Users)

=============================================================================
