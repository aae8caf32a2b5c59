-------------------------- MODULE MCBrowserSessions --------------------------
(* Instances of BrowserSessions for TLC. *)
EXTENDS BrowserSessions, TLC

CONSTANTS t1, t2, k1, k2, s1

Try(source, key, password) == [source |-> source, key |-> key, password |-> password]

(* Two passwords tried under two keys, and one of the keys used twice. *)
ThreeLogins == {Try(s1, k1, "a"), Try(s1, k2, "b"), Try(s1, k2, "a")}
ThreadSymmetry == Permutations(Threads)
=============================================================================
