---------------------------- MODULE MCDelegates ----------------------------
EXTENDS Delegates
CONSTANTS o, f, g, r, q, s, l, k

(* Every class and mode of delegate, two of them with a second target and  *)
(* a second route.                                                         *)
MCMade ==
    {FreeBind(f), FreeBind(g), MemberBindShared(o, f), MemberSpBind(o, f), FunctionBind(f),
     FreeAsyncBind(f, r), FreeAsyncBind(f, q), MemberAsyncBindRaw(o, f, r), MemberAsyncSpBind(o, f, r),
     FunctionAsyncBind(f, r), FreeAsyncWaitBind(f, r), MemberAsyncWaitBindShared(o, f, r),
     MemberAsyncWaitSpBind(o, f, r), FunctionAsyncWaitBind(f, r)}

MCSymmetry == Permutations({l, k})
=============================================================================
