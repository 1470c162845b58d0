---------------------------- MODULE MCValueStack ----------------------------
EXTENDS ValueStack
AllCalls == {<<"name", "cdecl">>, <<"pointer", "cdecl">>, <<"name", "fastcall">>, <<"name", "regparm">>}
OneCall == {<<"name", "regparm">>}
PointerCall == {<<"pointer", "regparm">>}
=============================================================================
