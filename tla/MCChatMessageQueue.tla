-------------------------- MODULE MCChatMessageQueue --------------------------
EXTENDS ChatMessageQueue, TLC

CONSTANTS m1, m2, m3, s1, s2, s3, s4, a1, a2, c1, c2

\* Each submission has a message of its own.
OwnMessages == (s1 :> m1) @@ (s2 :> m2)
OwnContents == (s1 :> "x") @@ (s2 :> "y")
NoReplacement == (s1 :> FALSE) @@ (s2 :> FALSE)

\* Three submissions use one client message id: one to replace what is queued,
\* a second with the same content, a third with other content.
SharedMessage == (s1 :> m1) @@ (s2 :> m2) @@ (s3 :> m2) @@ (s4 :> m2)
SharedContent == (s1 :> "x") @@ (s2 :> "y") @@ (s3 :> "y") @@ (s4 :> "z")
Replacement   == (s1 :> FALSE) @@ (s2 :> TRUE) @@ (s3 :> FALSE) @@ (s4 :> FALSE)

AttemptSymmetry == Permutations({a1, a2})
=============================================================================
