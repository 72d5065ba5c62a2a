---- MODULE MCRetryWindow ----
EXTENDS RetryWindow, TLC

CONSTANTS a, b

MCAPs == {a, b}
MCAPsSymmetry == Permutations(MCAPs)
====
