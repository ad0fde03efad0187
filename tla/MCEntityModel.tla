--------------------------- MODULE MCEntityModel ---------------------------
(* Values of the constants of EntityModel for model checking.             *)
EXTENDS EntityModelClaims

Of(c, type, release, descriptor) ==
    [type |-> type, message |-> "AEM_COMMAND", ctl |-> c, release |-> release,
     descriptor |-> descriptor]

Acquire(c)    == Of(c, "ACQUIRE_ENTITY", FALSE, "ENTITY")
Release(c)    == Of(c, "ACQUIRE_ENTITY", TRUE, "ENTITY")
Register(c)   == Of(c, "REGISTER_UNSOLICITED_NOTIFICATION", FALSE, "ENTITY")
Deregister(c) == Of(c, "DEREGISTER_UNSOLICITED_NOTIFICATION", FALSE, "ENTITY")
Response1     == [Acquire(101) EXCEPT !.message = "AEM_RESPONSE"]

\* One command of each other handler, both outcomes where a descriptor decides, and one
\* without a name
Unknown   == { Of(101, "OTHER", FALSE, "ENTITY"), Of(101, "UNNAMED", FALSE, "ENTITY") }
Enquiries ==
    { Of(102, "ACQUIRE_ENTITY", FALSE, "CONFIGURATION"), Of(101, "LOCK_ENTITY", FALSE, "ENTITY") }
    \cup Unknown
    \cup { Of(101, t, FALSE, d) : t \in { "READ_DESCRIPTOR", "GET_COUNTERS" },
                                  d \in { "CONFIGURATION", "STRINGS" } }
    \cup { Of(101, t, FALSE, d) : t \in { "GET_AVB_INFO", "GET_AUDIO_MAP" },
                                  d \in { "ENTITY", "UNNAMED" } }

\* Controller 101 begins (the two are interchangeable); then both contend for the entity or
\* end a subscription, and a third command comes in.
Mixture == << { Acquire(101), Register(101), Response1 },
              { Acquire(102), Release(101), Deregister(102) },
              { Acquire(101), Acquire(102), Release(102), Deregister(101) } \cup Enquiries >>
OnlyUnknown == << Unknown >>
=============================================================================
