---------------------------- MODULE MCClientServer ----------------------------
EXTENDS ClientServer
MCPrograms == {<<"read", "mut", "mk">>, <<"read", "create", "mut">>}
================================================================================
