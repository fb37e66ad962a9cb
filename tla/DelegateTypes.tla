--------------------------- MODULE DelegateTypes ---------------------------
(***************************************************************************)
(* The delegate classes of DelegateMQ (delegate/Delegate.h, DelegateAsync.h*)
(* and DelegateAsyncWait.h) as values.                                     *)
(*                                                                         *)
(* A delegate is a record: its class, how it is invoked ("sync" on the     *)
(* caller, "async" or "wait" on the thread of its route), the target       *)
(* object and how it is held, the target function, and what the blocking   *)
(* classes remember of their last call.  A route stands for the thread,    *)
(* the priority and the timeout a delegate is bound to.                    *)
(***************************************************************************)

CONSTANTS
    Objs,       \* target objects
    Fns,        \* target functions; all have the same signature
    Routes,     \* where the asynchronous classes send a call
    Nil

ASSUME NilIsNothing == Nil \notin Objs \cup Fns \cup Routes

Unbound == [cls |-> Nil, mode |-> "sync", obj |-> Nil, own |-> Nil, fn |-> Nil,
            route |-> Nil, sync |-> FALSE, ok |-> FALSE, val |-> Nil, n |-> 0]

-----------------------------------------------------------------------------
(* Binding.  DelegateMember takes a shared pointer, which keeps the object *)
(* alive, or a raw pointer wrapped in a shared pointer that deletes        *)
(* nothing; DelegateMemberSp keeps a weak pointer.                         *)

FreeBind(f)           == [Unbound EXCEPT !.cls = "Free", !.fn = f]
MemberBindShared(o, f) == [Unbound EXCEPT !.cls = "Member", !.obj = o, !.own = "shared", !.fn = f]
MemberBindRaw(o, f)    == [Unbound EXCEPT !.cls = "Member", !.obj = o, !.own = "raw", !.fn = f]
MemberSpBind(o, f)     == [Unbound EXCEPT !.cls = "MemberSp", !.obj = o, !.own = "weak", !.fn = f]
FunctionBind(f)        == [Unbound EXCEPT !.cls = "Function", !.fn = f]

(* The asynchronous classes derive from these and add the route.           *)
OnThread(d, mode, r) == [d EXCEPT !.mode = mode, !.route = r]

FreeAsyncBind(f, r)            == OnThread(FreeBind(f), "async", r)
MemberAsyncBindShared(o, f, r) == OnThread(MemberBindShared(o, f), "async", r)
MemberAsyncBindRaw(o, f, r)    == OnThread(MemberBindRaw(o, f), "async", r)
MemberAsyncSpBind(o, f, r)     == OnThread(MemberSpBind(o, f), "async", r)
FunctionAsyncBind(f, r)        == OnThread(FunctionBind(f), "async", r)

FreeAsyncWaitBind(f, r)            == OnThread(FreeBind(f), "wait", r)
MemberAsyncWaitBindShared(o, f, r) == OnThread(MemberBindShared(o, f), "wait", r)
MemberAsyncWaitBindRaw(o, f, r)    == OnThread(MemberBindRaw(o, f), "wait", r)
MemberAsyncWaitSpBind(o, f, r)     == OnThread(MemberSpBind(o, f), "wait", r)
FunctionAsyncWaitBind(f, r)        == OnThread(FunctionBind(f), "wait", r)

(* A copy has every member but m_sync, which only Invoke() sets.           *)
Clone(d) == [d EXCEPT !.sync = FALSE]

(* Every delegate that can be made.                                        *)
SyncDelegates ==
    {FreeBind(f) : f \in Fns} \cup {FunctionBind(f) : f \in Fns}
    \cup {MemberBindShared(o, f) : o \in Objs, f \in Fns}
    \cup {MemberBindRaw(o, f) : o \in Objs, f \in Fns}
    \cup {MemberSpBind(o, f) : o \in Objs, f \in Fns}

AsyncDelegates ==
    {FreeAsyncBind(f, r) : f \in Fns, r \in Routes}
    \cup {FunctionAsyncBind(f, r) : f \in Fns, r \in Routes}
    \cup {FreeAsyncWaitBind(f, r) : f \in Fns, r \in Routes}
    \cup {FunctionAsyncWaitBind(f, r) : f \in Fns, r \in Routes}
    \cup {MemberAsyncBindShared(o, f, r) : o \in Objs, f \in Fns, r \in Routes}
    \cup {MemberAsyncBindRaw(o, f, r) : o \in Objs, f \in Fns, r \in Routes}
    \cup {MemberAsyncSpBind(o, f, r) : o \in Objs, f \in Fns, r \in Routes}
    \cup {MemberAsyncWaitBindShared(o, f, r) : o \in Objs, f \in Fns, r \in Routes}
    \cup {MemberAsyncWaitBindRaw(o, f, r) : o \in Objs, f \in Fns, r \in Routes}
    \cup {MemberAsyncWaitSpBind(o, f, r) : o \in Objs, f \in Fns, r \in Routes}

-----------------------------------------------------------------------------
(* Empty and Equal, given the set of objects that are still alive.         *)

Lock(d, alive) == IF d.obj \in alive THEN d.obj ELSE Nil

FreeEmpty(d)            == d.fn = Nil
MemberEmpty(d)          == d.obj = Nil \/ d.fn = Nil
MemberSpEmpty(d, alive) == Lock(d, alive) = Nil \/ d.fn = Nil
FunctionEmpty(d)        == d.fn = Nil

FreeEqual(a, b)   == a.fn = b.fn
MemberEqual(a, b) == a.fn = b.fn /\ a.obj = b.obj

(* Weak pointers are locked first, so two dead objects are the same.       *)
MemberSpEqual(a, b, alive) == Lock(a, alive) = Lock(b, alive) /\ a.fn = b.fn

(* A std::function cannot be compared, only its type can.                  *)
FunctionEqual(a, b) == FunctionEmpty(a) <=> FunctionEmpty(b)

(* The asynchronous classes also compare thread, priority and timeout.     *)
(* Mutant: they do not.                                                    *)
AnyRoute(a, b) == TRUE
SameRoute(a, b) == a.route = b.route

FreeAsyncEqual(a, b)            == SameRoute(a, b) /\ FreeEqual(a, b)
MemberAsyncEqual(a, b)          == SameRoute(a, b) /\ MemberEqual(a, b)
MemberAsyncSpEqual(a, b, alive) == SameRoute(a, b) /\ MemberSpEqual(a, b, alive)
FunctionAsyncEqual(a, b)        == SameRoute(a, b) /\ FunctionEqual(a, b)

FreeAsyncWaitEqual(a, b)            == SameRoute(a, b) /\ FreeEqual(a, b)
MemberAsyncWaitEqual(a, b)          == SameRoute(a, b) /\ MemberEqual(a, b)
MemberAsyncWaitSpEqual(a, b, alive) == SameRoute(a, b) /\ MemberSpEqual(a, b, alive)
FunctionAsyncWaitEqual(a, b)        == SameRoute(a, b) /\ FunctionEqual(a, b)

(* a.Equal(b) is the one of a's class, and asks whether b can be cast to   *)
(* that class.  Each asynchronous class derives from the synchronous one   *)
(* with its target: a synchronous a equals an asynchronous b, and never    *)
(* the other way.                                                          *)
Equal(a, b, alive) ==
    /\ a.cls = b.cls /\ a.mode \in {"sync", b.mode}
    /\ CASE a.cls = "Free"     /\ a.mode = "sync"  -> FreeEqual(a, b)
         [] a.cls = "Free"     /\ a.mode = "async" -> FreeAsyncEqual(a, b)
         [] a.cls = "Free"     /\ a.mode = "wait"  -> FreeAsyncWaitEqual(a, b)
         [] a.cls = "Member"   /\ a.mode = "sync"  -> MemberEqual(a, b)
         [] a.cls = "Member"   /\ a.mode = "async" -> MemberAsyncEqual(a, b)
         [] a.cls = "Member"   /\ a.mode = "wait"  -> MemberAsyncWaitEqual(a, b)
         [] a.cls = "MemberSp" /\ a.mode = "sync"  -> MemberSpEqual(a, b, alive)
         [] a.cls = "MemberSp" /\ a.mode = "async" -> MemberAsyncSpEqual(a, b, alive)
         [] a.cls = "MemberSp" /\ a.mode = "wait"  -> MemberAsyncWaitSpEqual(a, b, alive)
         [] a.cls = "Function" /\ a.mode = "sync"  -> FunctionEqual(a, b)
         [] a.cls = "Function" /\ a.mode = "async" -> FunctionAsyncEqual(a, b)
         [] a.cls = "Function" /\ a.mode = "wait"  -> FunctionAsyncWaitEqual(a, b)
=============================================================================
