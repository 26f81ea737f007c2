------------------------------ MODULE MCDesktop -------------------------------
EXTENDS Desktop

\* The default, which starts the service, and settings as only an edited file
\* can have them, which do not.
MCSettings ==
    {DefaultSettings(2),
     [packetMs |-> 7, controlStart |-> 0, controlEnd |-> 1, discoveryStart |-> 2,
      discoveryEnd |-> 1, startOnLaunch |-> FALSE]}

MCScore == [a \in Addresses |-> 0]

\* The other program wants the first port of the default range.
MCSockets == {<<"tcp", 1>>}
==============================================================================
