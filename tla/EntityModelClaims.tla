------------------------- MODULE EntityModelClaims -------------------------
(* What the docstrings of aecp/__init__.py say of the entity model.        *)
EXTENDS EntityModel

\* Commands that no handler implements
NotImplemented(c) == c.type \in {"OTHER", "UNNAMED"}

Answered(n) == \E i \in DOMAIN responses : responses[i].to.seq = n

\* aecp/__init__.py:328-329: "Any command that is received and not implemented shall be
\* responded to with a correctly sized response and a status of NOT_IMPLEMENTED."
NotImplementedAnswered ==
    \A n \in 1 .. Len(Shapes) :
        (\E i \in 1 .. Len(arrived \o unqueued) :
            LET c == (arrived \o unqueued)[i] IN c.seq = n /\ NotImplemented(c))
          ~> Answered(n) \/ doTerminate
=============================================================================
