-------------------------- MODULE RpcServerProofs --------------------------
(***************************************************************************)
(* Proofs about RpcServer, for any sets of calling threads and workers,    *)
(* any size of the ring and any functions called: every call is in one     *)
(* place, a thread's calls are taken up in order, a FILE is used after it  *)
(* was closed only when its client was in haste, and every function is     *)
(* dispatched to its handler.                                              *)
(***************************************************************************)
EXTENDS RpcServer, TLAPS

USE ZenonT(10), SMT, SMTT(30)

(***************************************************************************)
(* The service table.  Every entry is a handler and every handler has an   *)
(* entry; its id is its name, setvbuf excepted.                            *)
(***************************************************************************)
InTable(n) == \E i \in 1 .. 83 : service_table[i] = n

Regular(h) ==
    /\ InTable(h.name)
    /\ h.id = h.name \/ (h.name = "setvbuf" /\ h.id = "fileno")
    /\ h.name \in {"setvbuf", "fileno"} => h.file = "uses"

(* What the table is used for below. *)
LEMMA Table ==
    /\ Len(service_table) = 83
    /\ service_table[66] = "fileno"
    /\ \A i \in 1 .. 83 : service_table[i] = "setvbuf" => i = 67
    /\ \A i \in 1 .. 83 : service_table[i] # None
BY SMT, SMTT(30) DEF service_table, None

(* No name is in the table twice. *)
LEMMA NoneTwice == \A i, j \in 1 .. 83 : service_table[i] = service_table[j] => i = j
BY SMT, SMTT(30) DEF service_table

(* Handlers of the common shapes are regular. *)
LEMMA RegularCall ==
    ASSUME NEW n, InTable(n), n \notin {"setvbuf", "fileno"}
    PROVE  /\ Regular(Call(n)) /\ Regular(Silent(Call(n))) /\ Regular(Picky(Call(n)))
           /\ \A what : Regular(On(n, what)) /\ Regular(Silent(On(n, what)))
BY DEF Regular, Call, Silent, Picky, On

(* So are the groups of handlers of one shape. *)
LEMMA RegularCalls ==
    ASSUME NEW names, \A n \in names : InTable(n) /\ n \notin {"setvbuf", "fileno"}
    PROVE  (\A h \in Calls(names) : Regular(h)) /\ (\A h \in Uses(names) : Regular(h))
BY RegularCall DEF Calls, Uses

(* All handlers are. *)
LEMMA RegularHandlers == \A h \in Handlers : Regular(h)
<1>1. \A h \in DescriptorCalls : Regular(h)
  <2>1. \A n \in {"open", "close", "read", "write", "lseek", "fcntl"} :
            InTable(n) /\ n \notin {"setvbuf", "fileno"}
    BY SMT, SMTT(30) DEF InTable, service_table
  <2> QED BY <2>1, RegularCalls DEF DescriptorCalls
<1>2. \A h \in ControlCalls : Regular(h)
  <2>1. \A n \in {"ioctl", "unlink", "freeaddrinfo", "getaddrinfo"} :
            InTable(n) /\ n \notin {"setvbuf", "fileno"}
    BY SMT, SMTT(30) DEF InTable, service_table
  <2>2. Regular([Call("unlink") EXCEPT !.reply = "ioctl"])
    BY <2>1 DEF Regular, Call
  <2> QED BY <2>1, <2>2, RegularCall DEF ControlCalls
<1>3. \A h \in HostCalls : Regular(h)
  <2>1. \A n \in {"gethostbyaddr", "gethostbyname", "getpeername", "getsockname"} :
            InTable(n) /\ n \notin {"setvbuf", "fileno"}
    BY SMT, SMTT(30) DEF InTable, service_table
  <2> QED BY <2>1, RegularCalls DEF HostCalls
<1>4. \A h \in ConnectionCalls : Regular(h)
  <2>1. \A n \in {"accept", "bind", "connect", "listen", "recv"} :
            InTable(n) /\ n \notin {"setvbuf", "fileno"}
    BY SMT, SMTT(30) DEF InTable, service_table
  <2> QED BY <2>1, RegularCalls DEF ConnectionCalls
<1>5. \A h \in SocketCalls : Regular(h)
  <2>1. \A n \in {"recvfrom", "send", "sendto", "setsockopt", "shutdown",
                   "socket"} :
            InTable(n) /\ n \notin {"setvbuf", "fileno"}
    BY SMT, SMTT(30) DEF InTable, service_table
  <2> QED BY <2>1, RegularCalls DEF SocketCalls
<1>6. \A h \in WaitCalls : Regular(h)
  <2>1. \A n \in {"poll", "select", "gethostname", "getsockopt"} :
            InTable(n) /\ n \notin {"setvbuf", "fileno"}
    BY SMT, SMTT(30) DEF InTable, service_table
  <2> QED BY <2>1, RegularCalls DEF WaitCalls
<1>7. \A h \in StreamCalls : Regular(h)
  <2>1. \A n \in {"printf", "getdents64", "fopen", "fclose", "fread"} :
            InTable(n) /\ n \notin {"setvbuf", "fileno"}
    BY SMT, SMTT(30) DEF InTable, service_table
  <2> QED BY <2>1, RegularCall DEF StreamCalls
<1>8. \A h \in TextCalls : Regular(h)
  <2>1. \A n \in {"fwrite", "fputs", "fgets", "feof", "freopen", "fprintf"} :
            InTable(n) /\ n \notin {"setvbuf", "fileno"}
    BY SMT, SMTT(30) DEF InTable, service_table
  <2> QED BY <2>1, RegularCall, RegularCalls DEF TextCalls
<1>9. \A h \in CharCalls : Regular(h)
  <2>1. \A n \in {"getc", "ferror", "getc_unlocked", "pclose", "tmpfile",
                   "clearerr"} :
            InTable(n) /\ n \notin {"setvbuf", "fileno"}
    BY SMT, SMTT(30) DEF InTable, service_table
  <2> QED BY <2>1, RegularCall, RegularCalls DEF CharCalls
<1>10. \A h \in SeekCalls : Regular(h)
  <2>1. \A n \in {"ungetc", "fseeko", "ftello", "fseek", "ftell", "popen"} :
            InTable(n) /\ n \notin {"setvbuf", "fileno"}
    BY SMT, SMTT(30) DEF InTable, service_table
  <2> QED BY <2>1, RegularCall, RegularCalls DEF SeekCalls
<1>11. \A h \in NameCalls : Regular(h)
  <2>1. \A n \in {"rename", "remove", "mkstemp", "fflush", "getwc", "putwc"} :
            InTable(n) /\ n \notin {"setvbuf", "fileno"}
    BY SMT, SMTT(30) DEF InTable, service_table
  <2> QED BY <2>1, RegularCalls DEF NameCalls
<1>12. \A h \in StatCalls : Regular(h)
  <2>1. \A n \in {"putc", "ungetwc", "stat", "lstat", "getcwd"} :
            InTable(n) /\ n \notin {"setvbuf", "fileno"}
    BY SMT, SMTT(30) DEF InTable, service_table
  <2> QED BY <2>1, RegularCall, RegularCalls DEF StatCalls
<1>13. \A h \in HandleCalls : Regular(h)
  <2>1. \A n \in {"fstat", "readlink", "system", "fdopen"} :
            InTable(n) /\ n \notin {"setvbuf", "fileno"}
    BY SMT, SMTT(30) DEF InTable, service_table
  <2>2. /\ Regular(On("fileno", "uses"))
        /\ Regular([On("setvbuf", "uses") EXCEPT !.id = "fileno", !.reply = "fileno"])
    <3>1. InTable("fileno") /\ InTable("setvbuf")
      BY SMT, SMTT(30) DEF InTable, service_table
    <3> QED BY <3>1 DEF Regular, On, Call
  <2> QED BY <2>1, <2>2, RegularCall, RegularCalls, SMT, SMTT(30) DEF HandleCalls
<1>14. \A h \in PathCalls : Regular(h)
  <2>1. \A n \in {"access", "dup2", "mkfifo", "chmod", "chdir", "mkdir", "rmdir"} :
            InTable(n) /\ n \notin {"setvbuf", "fileno"}
    BY SMT, SMTT(30) DEF InTable, service_table
  <2> QED BY <2>1, RegularCalls DEF PathCalls
<1>15. \A h \in MiscCalls : Regular(h)
  <2>1. \A n \in {"pipe", "ifnameindex", "putchar", "gaistrerror", "fscanfx"} :
            InTable(n) /\ n \notin {"setvbuf", "fileno"}
    BY SMT, SMTT(30) DEF InTable, service_table
  <2> QED BY <2>1, RegularCalls DEF MiscCalls
<1>16. \A h \in VectorCalls : Regular(h)
  <2>1. \A n \in {"accept4", "writev"} :
            InTable(n) /\ n \notin {"setvbuf", "fileno"}
    BY SMT, SMTT(30) DEF InTable, service_table
  <2> QED BY <2>1, RegularCalls DEF VectorCalls
<1> QED BY <1>1, <1>2, <1>3, <1>4, <1>5, <1>6, <1>7, <1>8, <1>9, <1>10, <1>11,
           <1>12, <1>13, <1>14, <1>15, <1>16 DEF Handlers

(* What a name of the table stands for. *)
LEMMA HandlerIs ==
    ASSUME NEW n \in Known
    PROVE  Handler(n) \in Handlers /\ Handler(n).name = n /\ Regular(Handler(n))
<1>1. PICK g \in Handlers : g.name = n
  BY DEF Known
<1>2. Handler(n) = CHOOSE h \in Handlers : h.name = n
  BY DEF Handler, HandlerOf, Known
<1>3. Handler(n) \in Handlers /\ Handler(n).name = n
  BY <1>1, <1>2
<1> QED BY <1>3, RegularHandlers

(* The shapes keep the name. *)
LEMMA NameOf ==
    ASSUME NEW n, NEW what, NEW id
    PROVE  /\ Call(n).name = n /\ Silent(Call(n)).name = n /\ Picky(Call(n)).name = n
           /\ On(n, what).name = n /\ Silent(On(n, what)).name = n
           /\ [Call(n) EXCEPT !.reply = id].name = n
           /\ [On(n, what) EXCEPT !.id = id, !.reply = id].name = n
BY DEF Call, Silent, Picky, On

Named(names, G) == \A n \in names : \E h \in G : h.name = n

(* A group has a handler for each of its names. *)
LEMMA NamesOf ==
    ASSUME NEW names, NEW G, Calls(names) \subseteq G \/ Uses(names) \subseteq G
    PROVE  Named(names, G)
<1>1. \A n \in names : Call(n) \in Calls(names) /\ On(n, "uses") \in Uses(names)
  BY DEF Calls, Uses
<1> QED BY <1>1, NameOf DEF Named

(* Every entry of the table has a handler. *)
LEMMA TableKnown == \A i \in 1 .. 83 : service_table[i] \in Known
<1>1. Named({"open", "close", "read", "write", "lseek", "fcntl"}, DescriptorCalls)
  BY NamesOf DEF DescriptorCalls
<1>2. Named({"ioctl", "unlink", "freeaddrinfo", "getaddrinfo"}, ControlCalls)
  <2>1. /\ Call("ioctl") \in ControlCalls
        /\ [Call("unlink") EXCEPT !.reply = "ioctl"] \in ControlCalls
        /\ Silent(Call("freeaddrinfo")) \in ControlCalls
        /\ Picky(Call("getaddrinfo")) \in ControlCalls
    BY DEF ControlCalls
  <2> QED BY <2>1, NameOf, Zenon DEF Named
<1>3. Named({"gethostbyaddr", "gethostbyname", "getpeername",
             "getsockname"}, HostCalls)
  BY NamesOf DEF HostCalls
<1>4. Named({"accept", "bind", "connect", "listen", "recv"}, ConnectionCalls)
  BY NamesOf DEF ConnectionCalls
<1>5. Named({"recvfrom", "send", "sendto", "setsockopt", "shutdown",
             "socket"}, SocketCalls)
  BY NamesOf DEF SocketCalls
<1>6. Named({"poll", "select", "gethostname", "getsockopt"}, WaitCalls)
  BY NamesOf DEF WaitCalls
<1>7. Named({"printf", "getdents64", "fopen", "fclose", "fread"}, StreamCalls)
  <2>1. /\ Silent(Call("printf")) \in StreamCalls
        /\ Call("getdents64") \in StreamCalls
        /\ On("fopen", "opens") \in StreamCalls
        /\ On("fclose", "closes") \in StreamCalls
        /\ On("fread", "uses") \in StreamCalls
    BY DEF StreamCalls
  <2> QED BY <2>1, NameOf, SMT, SMTT(30) DEF Named
<1>8. Named({"fwrite", "fputs", "fgets", "feof", "freopen", "fprintf"}, TextCalls)
  <2>1. Named({"fwrite", "fputs", "fgets", "feof"}, TextCalls)
    <3>1. Uses({"fwrite", "fputs", "fgets", "feof"}) \subseteq TextCalls
      BY DEF TextCalls
    <3> QED BY <3>1, NamesOf
  <2>2. /\ On("freopen", "reopens") \in TextCalls
        /\ Silent(On("fprintf", "uses")) \in TextCalls
    BY DEF TextCalls
  <2> QED BY <2>1, <2>2, NameOf, SMT, SMTT(30) DEF Named
<1>9. Named({"getc", "ferror", "getc_unlocked", "pclose", "tmpfile",
             "clearerr"}, CharCalls)
  <2>1. Named({"getc", "ferror", "getc_unlocked"}, CharCalls)
    <3>1. Uses({"getc", "ferror", "getc_unlocked"}) \subseteq CharCalls
      BY DEF CharCalls
    <3> QED BY <3>1, NamesOf
  <2>2. /\ On("pclose", "closes") \in CharCalls
        /\ On("tmpfile", "opens") \in CharCalls
        /\ Silent(On("clearerr", "uses")) \in CharCalls
    BY DEF CharCalls
  <2> QED BY <2>1, <2>2, NameOf, SMT, SMTT(30) DEF Named
<1>10. Named({"ungetc", "fseeko", "ftello", "fseek", "ftell", "popen"}, SeekCalls)
  <2>1. Named({"ungetc", "fseeko", "ftello", "fseek", "ftell"}, SeekCalls)
    <3>1. Uses({"ungetc", "fseeko", "ftello", "fseek", "ftell"}) \subseteq SeekCalls
      BY DEF SeekCalls
    <3> QED BY <3>1, NamesOf
  <2>2. On("popen", "opens") \in SeekCalls
    BY DEF SeekCalls
  <2> QED BY <2>1, <2>2, NameOf, SMT, SMTT(30) DEF Named
<1>11. Named({"rename", "remove", "mkstemp", "fflush", "getwc", "putwc"}, NameCalls)
  <2>1. Named({"rename", "remove", "mkstemp"}, NameCalls)
    <3>1. Calls({"rename", "remove", "mkstemp"}) \subseteq NameCalls
      BY DEF NameCalls
    <3> QED BY <3>1, NamesOf
  <2>2. Named({"fflush", "getwc", "putwc"}, NameCalls)
    <3>1. Uses({"fflush", "getwc", "putwc"}) \subseteq NameCalls
      BY DEF NameCalls
    <3> QED BY <3>1, NamesOf
  <2> QED BY <2>1, <2>2 DEF Named
<1>12. Named({"putc", "ungetwc", "stat", "lstat", "getcwd"}, StatCalls)
  <2>1. Named({"putc", "ungetwc"}, StatCalls)
    <3>1. Uses({"putc", "ungetwc"}) \subseteq StatCalls
      BY DEF StatCalls
    <3> QED BY <3>1, NamesOf
  <2>2. Named({"stat", "lstat"}, StatCalls)
    <3>1. Calls({"stat", "lstat"}) \subseteq StatCalls
      BY DEF StatCalls
    <3> QED BY <3>1, NamesOf
  <2>3. Picky(Call("getcwd")) \in StatCalls
    BY DEF StatCalls
  <2> QED BY <2>1, <2>2, <2>3, NameOf, SMT, SMTT(30) DEF Named
<1>13. Named({"fstat", "readlink", "system", "fdopen", "fileno",
             "setvbuf"}, HandleCalls)
  <2>1. Named({"fstat", "readlink", "system"}, HandleCalls)
    <3>1. Calls({"fstat", "readlink", "system"}) \subseteq HandleCalls
      BY DEF HandleCalls
    <3> QED BY <3>1, NamesOf
  <2>2. /\ On("fdopen", "opens") \in HandleCalls
        /\ On("fileno", "uses") \in HandleCalls
        /\ [On("setvbuf", "uses") EXCEPT !.id = "fileno", !.reply = "fileno"] \in HandleCalls
    BY DEF HandleCalls
  <2>3. [On("setvbuf", "uses") EXCEPT !.id = "fileno", !.reply = "fileno"].name = "setvbuf"
    BY DEF On, Call
  <2>4. \E h \in HandleCalls : h.name = "setvbuf"
    BY <2>2, <2>3, Zenon
  <2>5. Named({"fdopen", "fileno"}, HandleCalls)
    BY <2>2, NameOf DEF Named
  <2> QED BY <2>1, <2>4, <2>5 DEF Named
<1>14. Named({"access", "dup2", "mkfifo", "chmod", "chdir", "mkdir",
             "rmdir"}, PathCalls)
  BY NamesOf DEF PathCalls
<1>15. Named({"pipe", "ifnameindex", "putchar", "gaistrerror",
             "fscanfx"}, MiscCalls)
  <2>1. Named({"pipe", "ifnameindex", "putchar", "gaistrerror"}, MiscCalls)
    <3>1. Calls({"pipe", "ifnameindex", "putchar", "gaistrerror"}) \subseteq MiscCalls
      BY DEF MiscCalls
    <3> QED BY <3>1, NamesOf
  <2>2. Named({"fscanfx"}, MiscCalls)
    <3>1. Uses({"fscanfx"}) \subseteq MiscCalls
      BY DEF MiscCalls
    <3> QED BY <3>1, NamesOf
  <2> QED BY <2>1, <2>2 DEF Named
<1>16. Named({"accept4", "writev"}, VectorCalls)
  BY NamesOf DEF VectorCalls
<1> DEFINE names == {"open", "read", "write", "close", "lseek", "fcntl", "ioctl",
                     "unlink", "getdents64", "freeaddrinfo", "getaddrinfo",
                     "gethostbyaddr", "gethostbyname", "poll", "getpeername",
                     "gethostname", "getsockname", "getsockopt", "select",
                     "accept", "bind", "connect", "listen", "recv", "recvfrom",
                     "send", "sendto", "setsockopt", "shutdown", "socket", "fopen",
                     "fclose", "fread", "fwrite", "freopen", "fputs", "fgets",
                     "feof", "fprintf", "getc", "ferror", "getc_unlocked",
                     "pclose", "tmpfile", "clearerr", "popen", "ungetc", "fseeko",
                     "ftello", "fseek", "ftell", "rename", "remove", "mkstemp",
                     "stat", "lstat", "getcwd", "printf", "fflush", "getwc",
                     "putwc", "putc", "ungetwc", "fstat", "fdopen", "fileno",
                     "setvbuf", "system", "readlink", "access", "dup2", "mkfifo",
                     "chmod", "chdir", "mkdir", "rmdir", "pipe", "fscanfx",
                     "ifnameindex", "putchar", "gaistrerror", "accept4", "writev"}
<1>17. \A i \in 1 .. 83 : service_table[i] \in names
  BY SMT, SMTT(30) DEF service_table
<1>18. \A n \in names : \E h \in Handlers : h.name = n
  BY <1>1, <1>2, <1>3, <1>4, <1>5, <1>6, <1>7, <1>8, <1>9, <1>10, <1>11, <1>12,
     <1>13, <1>14, <1>15, <1>16, SMT, SMTT(30) DEF Handlers, Named
<1> HIDE DEF names
<1> QED BY <1>17, <1>18, Zenon DEF Known

(* The entries find_service() passes by. *)
LEMMA HitIs ==
    ASSUME NEW i \in 1 .. 83, NEW id, IdAt[i] = id
    PROVE  service_table[i] = id \/ (service_table[i] = "setvbuf" /\ id = "fileno")
<1>1. service_table[i] \in Known
  BY TableKnown
<1>2. IdAt[i] = Handler(service_table[i]).id
  BY Table DEF IdAt
<1> QED BY <1>1, <1>2, HandlerIs DEF Regular

(* An entry has its own id, but for setvbuf. *)
LEMMA IdAtIs ==
    ASSUME NEW i \in 1 .. 83
    PROVE  IdAt[i] = IF service_table[i] = "setvbuf" THEN IdAt[i] ELSE service_table[i]
<1>1. service_table[i] \in Known
  BY TableKnown
<1>2. IdAt[i] = Handler(service_table[i]).id
  BY Table DEF IdAt
<1> QED BY <1>1, <1>2, HandlerIs DEF Regular

(* What the search returns is the first entry with the id. *)
LEMMA FindService ==
    ASSUME NEW id
    PROVE  \/ find_service(id) = None /\ \A i \in 1 .. 83 : IdAt[i] # id
           \/ \E i \in 1 .. 83 : /\ find_service(id) = service_table[i] /\ IdAt[i] = id
                                 /\ \A j \in 1 .. 83 : IdAt[j] = id => i <= j
<1> DEFINE hits == {i \in 1 .. 83 : IdAt[i] = id}
           first == CHOOSE i \in hits : \A j \in hits : i <= j
<1>1. find_service(id) = IF hits = {} THEN None ELSE service_table[first]
  BY Table, SMT, SMTT(30) DEF find_service
<1>2. CASE hits = {}
  BY <1>1, <1>2, ZenonT(40)
<1>3. CASE hits # {}
  <2>1. PICK i \in hits : TRUE
    BY <1>3
  <2>2. \E k \in hits : \A j \in hits : k <= j
    <3>1. CASE \A j \in hits : i <= j
      BY <2>1, <3>1
    <3>2. CASE \E j \in hits : j < i
      <4>1. PICK j \in hits : j < i
        BY <3>2
      <4>2. \A k \in hits : service_table[k] \in {id, "setvbuf"}
        BY HitIs
      <4>3. i # j /\ i \in 1 .. 83 /\ j \in 1 .. 83
        BY <2>1, <4>1, SMT, SMTT(30)
      <4>4. service_table[i] # service_table[j]
        BY <4>3, NoneTwice, ZenonT(40)
      <4>5. \A k \in hits : k = i \/ k = j
        BY <4>1, <4>2, <4>4, NoneTwice, ZenonT(40)
      <4> QED BY <4>1, <4>5, SMT, SMTT(30)
    <3> QED BY <3>1, <3>2, SMT, SMTT(30)
  <2>3. first \in hits /\ \A j \in hits : first <= j
    BY <2>2, Zenon
  <2> HIDE DEF first
  <2> QED BY <1>1, <1>3, <2>3, Zenon
<1> QED BY <1>2, <1>3, Zenon

(* The id of a call leads to the handler of that call, but for setvbuf. *)
LEMMA FoundHome == IdsLeadHome
<1> SUFFICES ASSUME NEW name \in Known, name # "setvbuf"
             PROVE  find_service(IdOf(name)) = name
  BY DEF IdsLeadHome
<1>1. IdOf(name) = name
  BY HandlerIs DEF IdOf, Regular
<1>2. PICK k \in 1 .. 83 : service_table[k] = name
  BY HandlerIs DEF Regular, InTable
<1>3. IdAt[k] = name
  BY <1>2, IdAtIs
<1>4. PICK i \in 1 .. 83 : /\ find_service(name) = service_table[i] /\ IdAt[i] = name
                           /\ \A j \in 1 .. 83 : IdAt[j] = name => i <= j
  BY <1>3, FindService, ZenonT(40)
<1>5. CASE service_table[i] = name
  BY <1>1, <1>4, <1>5
<1>6. CASE service_table[i] = "setvbuf" /\ name = "fileno"
  <2>1. IdAt[66] = name
    BY <1>6, Table, IdAtIs, SMT, SMTT(30)
  <2>2. i <= 66
    BY <1>4, <2>1, SMT, SMTT(30)
  <2> QED BY <1>6, <2>2, Table, SMT, SMTT(30)
<1> QED BY <1>4, <1>5, <1>6, HitIs

(* The handler a call is dispatched to treats the FILE as the call's own would. *)
LEMMA FoundIs ==
    ASSUME NEW name \in Names
    PROVE  /\ Found[name] \in Known \union {None}
           /\ Found[name] # None => /\ Found[name] \in Known
                                    /\ Handler(Found[name]).file = FileUse(name)
<1>1. Found[name] = find_service(IdOf(name))
  BY DEF Found
<1>2. CASE name \in Known /\ name # "setvbuf"
  BY <1>1, <1>2, FoundHome DEF IdsLeadHome, FileUse
<1>3. CASE name \in Known /\ name = "setvbuf"
  <2>1. IdOf(name) \in {"setvbuf", "fileno"}
    BY <1>3, HandlerIs DEF IdOf, Regular
  <2>2. Found[name] = None \/ Found[name] \in {"setvbuf", "fileno"}
    <3> DEFINE id == IdOf(name)
    <3> HIDE DEF id
    <3>1. CASE find_service(id) = None
      BY <1>1, <3>1 DEF id
    <3>2. CASE find_service(id) # None
      <4>1. PICK i \in 1 .. 83 : find_service(id) = service_table[i] /\ IdAt[i] = id
        BY <3>2, FindService
      <4>2. service_table[i] = id \/ service_table[i] = "setvbuf"
        BY <4>1, HitIs
      <4> QED BY <1>1, <2>1, <4>1, <4>2 DEF id
    <3> QED BY <3>1, <3>2
  <2>3. FileUse(name) = "uses"
    BY <1>3, HandlerIs DEF FileUse, Regular
  <2>4. Found[name] # None => Found[name] \in Known
    <3> SUFFICES ASSUME Found[name] # None PROVE Found[name] \in Known
      OBVIOUS
    <3>1. PICK i \in 1 .. 83 : find_service(IdOf(name)) = service_table[i]
      BY <1>1, FindService
    <3> QED BY <1>1, <3>1, TableKnown
  <2>5. Found[name] # None => Handler(Found[name]).file = "uses"
    BY <2>2, <2>4, HandlerIs DEF Regular
  <2> QED BY <2>3, <2>4, <2>5
<1>4. CASE name \notin Known
  <2>1. IdOf(name) = name
    BY <1>4 DEF IdOf
  <2>2. \A i \in 1 .. 83 : IdAt[i] # name
    <3> SUFFICES ASSUME NEW i \in 1 .. 83, IdAt[i] = name
                 PROVE  FALSE
      OBVIOUS
    <3>1. service_table[i] = name \/ name = "fileno"
      BY HitIs, SMT, SMTT(30)
    <3>2. "fileno" \in Known
      BY Table, TableKnown, SMT, SMTT(30)
    <3> QED BY <1>4, <3>1, <3>2, TableKnown
  <2> QED BY <1>1, <2>1, <2>2, FindService, Zenon
<1> QED BY <1>2, <1>3, <1>4

(***************************************************************************)
(* The ring.  head and tail are below QueueSize, so that what is added to  *)
(* them or taken from them wraps around once at most.                      *)
(***************************************************************************)
LEMMA RemainderIs ==
    ASSUME NEW n \in Nat \ {0}, NEW x \in Int, NEW d \in Int, NEW r \in 0 .. n - 1,
           x = n * d + r
    PROVE  x % n = r
<1>1. x % n = x - n * (x \div n)
  BY Z3T(30)
<1>2. PICK e \in Int : e = x \div n
  BY SMT, SMTT(30)
<1>3. PICK t \in 0 .. n - 1 : t = x % n
  BY SMT, SMTT(30)
<1>4. r - t = n * (e - d)
  <2>1. t = x - n * e
    BY <1>1, <1>2, <1>3
  <2>2. n * d + r = n * e + t
    BY <2>1, SMT, SMTT(30)
  <2> QED BY <2>2, SMT, SMTT(30)
<1>5. PICK f \in Int : f = e - d
  BY SMT, SMTT(30)
<1>6. r - t = n * f
  BY <1>4, <1>5
<1>7. CASE f >= 1
  <2>1. n * f >= n
    BY <1>7, SMT
  <2> QED BY <1>6, <2>1, SMT, SMTT(30)
<1>8. CASE f <= -1
  <2>1. n * f <= -n
    BY <1>8, SMT
  <2> QED BY <1>6, <2>1, SMT, SMTT(30)
<1>9. CASE f = 0
  BY <1>3, <1>6, <1>9, SMT, SMTT(30)
<1> QED BY <1>7, <1>8, <1>9, SMT, SMTT(30)

(* An index that left the ring on either side wraps around once. *)
LEMMA Wraps ==
    ASSUME NEW n \in Nat \ {0}, NEW x \in (1 - n) .. (2 * n - 1)
    PROVE  x % n = IF x < 0 THEN x + n ELSE IF x < n THEN x ELSE x - n
<1>1. CASE x < 0
  <2>1. x = n * (-1) + (x + n) /\ x + n \in 0 .. n - 1
    BY <1>1, SMT, SMTT(30)
  <2>2. x % n = x + n
    BY <2>1, RemainderIs, SMT, SMTT(30)
  <2> QED BY <1>1, <2>2
<1>2. CASE x \in 0 .. n - 1
  <2>1. x = n * 0 + x
    BY <1>2, SMT, SMTT(30)
  <2>2. x % n = x
    BY <1>2, <2>1, RemainderIs, SMT, SMTT(30)
  <2> QED BY <1>2, <2>2, SMT, SMTT(30)
<1>3. CASE x >= n
  <2>1. x = n * 1 + (x - n) /\ x - n \in 0 .. n - 1
    BY <1>3, SMT, SMTT(30)
  <2>2. x % n = x - n
    BY <2>1, RemainderIs, SMT, SMTT(30)
  <2> QED BY <1>3, <2>2, SMT, SMTT(30)
<1> QED BY <1>1, <1>2, <1>3, SMT, SMTT(30)

Count(h, t) == IF t >= h THEN t - h ELSE t - h + QueueSize
Slot(h, i) == IF h + i - 1 < QueueSize THEN h + i - 1 ELSE h + i - 1 - QueueSize

(* The number of requests in the ring, without a remainder. *)
LEMMA RingLength ==
    \A h \in 0 .. QueueSize - 1, t \in 0 .. QueueSize - 1 :
        Count(h, t) \in 0 .. QueueSize - 1 /\ (t - h) % QueueSize = Count(h, t)
<1> USE RpcAssumption
<1> SUFFICES ASSUME NEW h \in 0 .. QueueSize - 1, NEW t \in 0 .. QueueSize - 1
             PROVE  Count(h, t) \in 0 .. QueueSize - 1 /\ (t - h) % QueueSize = Count(h, t)
  OBVIOUS
<1>1. Count(h, t) \in 0 .. QueueSize - 1
  BY SMT, SMTT(30) DEF Count
<1>2. (t - h) % QueueSize = Count(h, t)
  <2> DEFINE x == t - h
  <2>1. x \in (1 - QueueSize) .. (2 * QueueSize - 1) /\ x < QueueSize
    BY SMT, SMTT(30)
  <2> HIDE DEF x
  <2>2. x % QueueSize = IF x < 0 THEN x + QueueSize ELSE x
    BY <2>1, Wraps, Zenon
  <2> QED BY <2>2, SMT, SMTT(30) DEF Count, x
<1> QED BY <1>1, <1>2

(* The slot of the i-th request in the ring, without a remainder. *)
LEMMA RingSlot ==
    \A h \in 0 .. QueueSize - 1 : \A i \in 1 .. QueueSize :
        (h + i - 1) % QueueSize = Slot(h, i) /\ Slot(h, i) \in 0 .. QueueSize - 1
<1> USE RpcAssumption
<1> SUFFICES ASSUME NEW h \in 0 .. QueueSize - 1, NEW i \in 1 .. QueueSize
             PROVE  /\ (h + i - 1) % QueueSize = Slot(h, i)
                    /\ Slot(h, i) \in 0 .. QueueSize - 1
  OBVIOUS
<1> DEFINE x == h + i - 1
<1>1. x \in (1 - QueueSize) .. (2 * QueueSize - 1) /\ x >= 0 /\ x < 2 * QueueSize
  BY SMT, SMTT(30)
<1> HIDE DEF x
<1>2. x % QueueSize = IF x < QueueSize THEN x ELSE x - QueueSize
  <2>1. x % QueueSize = IF x < 0 THEN x + QueueSize
                        ELSE IF x < QueueSize THEN x ELSE x - QueueSize
    BY <1>1, Wraps, Zenon
  <2>2. ~(x < 0)
    BY <1>1, SMT, SMTT(30)
  <2> QED BY <2>1, <2>2
<1>3. Slot(h, i) = IF x < QueueSize THEN x ELSE x - QueueSize
  BY SMT, SMTT(30) DEF Slot, x
<1>4. Slot(h, i) \in 0 .. QueueSize - 1
  BY <1>1, <1>3, SMT, SMTT(30)
<1>5. x % QueueSize = Slot(h, i)
  BY <1>2, <1>3, SMT, SMTT(30)
<1> QED BY <1>4, <1>5 DEF x

(* The requests in the ring, by their slots. *)
LEMMA QueuedIs ==
    ASSUME TypeOK
    PROVE  /\ Len(Queued) = Count(head, tail) /\ Len(Queued) \in 0 .. QueueSize - 1
           /\ \A i \in 1 .. Len(Queued) : Queued[i] = q[Slot(head, i)]
           /\ Queued \in Seq(Request \union {NoRequest})
           /\ DOMAIN Queued = 1 .. Len(Queued)
           /\ \A i \in 1 .. Len(Queued) : Slot(head, i) \in 0 .. QueueSize - 1
<1>1. /\ head \in 0 .. QueueSize - 1 /\ tail \in 0 .. QueueSize - 1
      /\ q \in [0 .. QueueSize - 1 -> Request \union {NoRequest}]
  BY DEF TypeOK
<1>2. /\ Count(head, tail) \in 0 .. QueueSize - 1
      /\ (tail - head) % QueueSize = Count(head, tail)
      /\ \A i \in 1 .. Count(head, tail) : /\ (head + i - 1) % QueueSize = Slot(head, i)
                                           /\ Slot(head, i) \in 0 .. QueueSize - 1
  <2>1. /\ Count(head, tail) \in 0 .. QueueSize - 1
        /\ (tail - head) % QueueSize = Count(head, tail)
    BY <1>1, RingLength, Zenon
  <2>2. \A i \in 1 .. QueueSize : /\ (head + i - 1) % QueueSize = Slot(head, i)
                                 /\ Slot(head, i) \in 0 .. QueueSize - 1
    BY <1>1, RingSlot, Zenon
  <2>3. \A i \in 1 .. Count(head, tail) : i \in 1 .. QueueSize
    BY <2>1, RpcAssumption, SMT, SMTT(30)
  <2> QED BY <2>1, <2>2, <2>3, Zenon
<1>3. /\ Len(Queued) = Count(head, tail)
      /\ \A i \in 1 .. Count(head, tail) : Queued[i] = q[Slot(head, i)]
      /\ DOMAIN Queued = 1 .. Count(head, tail)
  <2>1. Queued = [i \in 1 .. Count(head, tail) |-> q[(head + i - 1) % QueueSize]]
    BY <1>2 DEF Queued
  <2>2. \A i \in 1 .. Count(head, tail) : Queued[i] = q[Slot(head, i)]
    BY <1>2, <2>1, Zenon
  <2> QED BY <1>2, <2>1, <2>2, SMT, SMTT(30)
<1>4. \A i \in 1 .. Count(head, tail) : q[Slot(head, i)] \in Request \union {NoRequest}
  BY <1>1, <1>2, Zenon
<1>5. Queued \in Seq(Request \union {NoRequest})
  <2>1. Queued = [i \in 1 .. Count(head, tail) |-> Queued[i]]
    BY <1>3 DEF Queued
  <2>2. \A i \in 1 .. Count(head, tail) : Queued[i] \in Request \union {NoRequest}
    BY <1>3, <1>4
  <2>3. Queued \in [1 .. Count(head, tail) -> Request \union {NoRequest}]
    BY <2>1, <2>2, Zenon
  <2> QED BY <1>2, <2>3, SMT, SMTT(30)
<1> QED BY <1>2, <1>3, <1>5

(* The same after a step. *)
LEMMA QueuedAfter ==
    ASSUME head' \in 0 .. QueueSize - 1, tail' \in 0 .. QueueSize - 1
    PROVE  /\ Len(Queued') = Count(head', tail')
           /\ \A i \in 1 .. Count(head', tail') : Queued'[i] = q'[Slot(head', i)]
<1>1. /\ Count(head', tail') \in 0 .. QueueSize - 1
      /\ (tail' - head') % QueueSize = Count(head', tail')
  BY RingLength, Zenon
<1>2. \A i \in 1 .. QueueSize : (head' + i - 1) % QueueSize = Slot(head', i)
  BY RingSlot, Zenon
<1>3. \A i \in 1 .. Count(head', tail') : i \in 1 .. QueueSize
  BY <1>1, RpcAssumption, SMT, SMTT(30)
<1>4. Queued' = [i \in 1 .. Count(head', tail') |-> q'[(head' + i - 1) % QueueSize]]
  BY <1>1 DEF Queued
<1>5. \A i \in 1 .. Count(head', tail') : Queued'[i] = q'[Slot(head', i)]
  BY <1>2, <1>3, <1>4, Zenon
<1> QED BY <1>1, <1>4, <1>5, SMT, SMTT(30)

(* A request joins the line at its end. *)
LEMMA Enqueued ==
    ASSUME TypeOK, ~Full, NEW r, q' = [q EXCEPT ![tail] = r], head' = head,
           tail' = IF tail + 1 = QueueSize THEN 0 ELSE tail + 1
    PROVE  /\ Len(Queued') = Len(Queued) + 1
           /\ \A i \in 1 .. Len(Queued) : Queued'[i] = Queued[i]
           /\ Queued'[Len(Queued) + 1] = r
<1> USE RpcAssumption
<1>1. /\ head \in 0 .. QueueSize - 1 /\ tail \in 0 .. QueueSize - 1
      /\ q \in [0 .. QueueSize - 1 -> Request \union {NoRequest}]
  BY DEF TypeOK
<1>2. (tail + 1) % QueueSize = tail' /\ tail' \in 0 .. QueueSize - 1 /\ tail' # head
  <2> DEFINE x == tail + 1
  <2>1. x \in (1 - QueueSize) .. (2 * QueueSize - 1) /\ x >= 0 /\ x <= QueueSize
    BY <1>1, SMT, SMTT(30)
  <2>2. tail' = IF x < QueueSize THEN x ELSE x - QueueSize
    BY <2>1, SMT, SMTT(30)
  <2> HIDE DEF x
  <2>3. x % QueueSize = IF x < QueueSize THEN x ELSE x - QueueSize
    <3>1. x % QueueSize = IF x < 0 THEN x + QueueSize
                          ELSE IF x < QueueSize THEN x ELSE x - QueueSize
      BY <2>1, Wraps, Zenon
    <3>2. ~(x < 0)
      BY <2>1, SMT, SMTT(30)
    <3> QED BY <3>1, <3>2
  <2>4. x % QueueSize = tail' /\ tail' \in 0 .. QueueSize - 1
    BY <2>1, <2>2, <2>3, SMT, SMTT(30)
  <2> QED BY <2>4 DEF Full, x
<1>3. Count(head, tail') = Count(head, tail) + 1
  BY <1>1, <1>2, SMT, SMTT(30) DEF Count
<1>4. /\ Len(Queued) = Count(head, tail) /\ Len(Queued) \in 0 .. QueueSize - 1
      /\ \A i \in 1 .. Len(Queued) : Queued[i] = q[Slot(head, i)]
  BY QueuedIs
<1>5. q' \in [0 .. QueueSize - 1 -> Request \union {NoRequest, r}]
  BY <1>1
<1>6. /\ Len(Queued') = Count(head, tail')
      /\ \A i \in 1 .. Count(head, tail') : Queued'[i] = q'[Slot(head, i)]
  BY <1>1, <1>2, QueuedAfter
<1>7. \A i \in 1 .. Count(head, tail) : Slot(head, i) \in 0 .. QueueSize - 1 /\ Slot(head, i) # tail
  BY <1>1, <1>3, <1>2, SMT, SMTT(30) DEF Count, Slot
<1>8. Slot(head, Count(head, tail) + 1) = tail
  BY <1>1, <1>2, SMT, SMTT(30) DEF Count, Slot
<1>9. \A i \in 1 .. Len(Queued) : Queued'[i] = Queued[i]
  BY <1>1, <1>3, <1>4, <1>6, <1>7, SMT, SMTT(30)
<1>10. Queued'[Len(Queued) + 1] = r
  BY <1>1, <1>3, <1>4, <1>6, <1>8, SMT, SMTT(30)
<1> QED BY <1>3, <1>4, <1>6, <1>9, <1>10

(* The first one leaves it. *)
LEMMA Dequeued ==
    ASSUME TypeOK, head # tail, UNCHANGED <<q, tail>>,
           head' = IF head + 1 = QueueSize THEN 0 ELSE head + 1
    PROVE  /\ Len(Queued) >= 1 /\ Queued[1] = q[head]
           /\ Len(Queued') = Len(Queued) - 1
           /\ \A i \in 1 .. Len(Queued) - 1 : Queued'[i] = Queued[i + 1]
<1> USE RpcAssumption
<1>1. /\ head \in 0 .. QueueSize - 1 /\ tail \in 0 .. QueueSize - 1
      /\ head' \in 0 .. QueueSize - 1
  BY SMT, SMTT(30) DEF TypeOK
<1>2. Count(head', tail) = Count(head, tail) - 1 /\ Count(head, tail) >= 1
  BY <1>1, SMT, SMTT(30) DEF Count
<1>3. /\ Len(Queued) = Count(head, tail) /\ Len(Queued) \in 0 .. QueueSize - 1
      /\ \A i \in 1 .. Len(Queued) : Queued[i] = q[Slot(head, i)]
  BY QueuedIs
<1>5. /\ Len(Queued') = Count(head', tail)
      /\ \A i \in 1 .. Count(head', tail) : Queued'[i] = q[Slot(head', i)]
  BY <1>1, QueuedAfter
<1>6. Slot(head, 1) = head
  BY <1>1, SMT, SMTT(30) DEF Slot
<1>7. \A i \in 1 .. Len(Queued) - 1 : Slot(head', i) = Slot(head, i + 1)
  BY <1>1, <1>3, SMT, SMTT(30) DEF Slot
<1>8. \A i \in 1 .. Len(Queued) - 1 : i + 1 \in 1 .. Len(Queued)
  BY <1>3, SMT, SMTT(30)
<1>9. \A i \in 1 .. Len(Queued) - 1 : Queued'[i] = Queued[i + 1]
  BY <1>2, <1>3, <1>5, <1>7, <1>8, SMT, SMTT(30)
<1> QED BY <1>2, <1>3, <1>5, <1>6, <1>9, SMT, SMTT(30)

(***************************************************************************)
(* Calls, and where they are.                                              *)
(***************************************************************************)
LEMMA TraceFacts ==
    /\ NoTrace \notin Trace
    /\ \A c \in Trace : c[1] \in Thread /\ c[2] \in 1 .. MaxCalls /\ c = <<c[1], c[2]>>
    /\ \A t \in Thread, n \in 1 .. MaxCalls : <<t, n>> \in Trace
BY SMT, SMTT(30) DEF Trace, NoTrace

(* The fields of a request. *)
LEMMA RequestFacts ==
    /\ \A r \in Request : /\ r.trace \in Trace /\ r.name \in Names
                          /\ r.handle \in Trace \union {NoTrace}
    /\ \A c \in Trace, n \in Names, h \in Trace \union {NoTrace} :
           [trace |-> c, name |-> n, handle |-> h] \in Request
    /\ \A r \in Request : r.trace # NoTrace
BY TraceFacts DEF Request

(* The fields of an answer. *)
LEMMA AnswerFacts ==
    /\ \A a \in Answer : /\ a.trace \in Trace \union {NoTrace}
                         /\ a.opened \in Trace \union {NoTrace}
    /\ \A id \in Names \union {h.id : h \in Handlers} \union {h.reply : h \in Handlers},
          c \in Trace \union {NoTrace}, o \in Trace \union {NoTrace} :
           [id |-> id, trace |-> c, opened |-> o] \in Answer
BY DEF Answer

(* A pending request is in the channel, in the ring or in the hand of an executor. *)
LEMMA PendingIs ==
    ASSUME NEW r
    PROVE  r \in Pending <=> \/ \E i \in 1 .. Len(inbox) : r = inbox[i]
                             \/ \E i \in 1 .. Len(Queued) : r = Queued[i]
                             \/ \E e \in InHand : r = exec[e].req
BY DEF Pending

(* The same after a step. *)
LEMMA PendingAfter ==
    ASSUME NEW r
    PROVE  r \in Pending' <=> \/ \E i \in 1 .. Len(inbox') : r = inbox'[i]
                              \/ \E i \in 1 .. Len(Queued') : r = Queued'[i]
                              \/ \E e \in InHand' : r = exec'[e].req
BY DEF Pending

(* Pending requests are requests: no empty slot is among them. *)
LEMMA PendingType ==
    ASSUME TypeOK, Placed
    PROVE  \A r \in Pending : r \in Request
<1>1. \A i \in 1 .. Len(inbox) : inbox[i] \in Request
  BY SMT, SMTT(30) DEF TypeOK
<1>2. \A i \in 1 .. Len(Queued) : Queued[i] \in Request
  BY DEF Placed
<1>3. \A e \in InHand : exec[e].req \in Request
  BY DEF Placed
<1> QED BY <1>1, <1>2, <1>3, PendingIs

(* Two that wait or are carried out are different calls. *)
LEMMA OlderDiffers ==
    ASSUME NEW r1 \in Request, NEW r2 \in Request, Older(r1, r2)
    PROVE  r1.trace # r2.trace
<1>1. r1.trace[2] \in 1 .. MaxCalls /\ r2.trace[2] \in 1 .. MaxCalls
  BY RequestFacts, TraceFacts
<1> QED BY <1>1, RpcAssumption, SMT, SMTT(30) DEF Older

(* No two places have requests of the same call. *)
LEMMA TracesDiffer ==
    ASSUME TypeOK, Placed, InLine
    PROVE  /\ \A i, j \in 1 .. Len(inbox) : i # j => inbox[i].trace # inbox[j].trace
           /\ \A i, j \in 1 .. Len(Queued) : i # j => Queued[i].trace # Queued[j].trace
           /\ \A i \in 1 .. Len(Queued), j \in 1 .. Len(inbox) : Queued[i].trace # inbox[j].trace
           /\ \A e \in InHand, j \in 1 .. Len(Queued) : exec[e].req.trace # Queued[j].trace
           /\ \A e \in InHand, j \in 1 .. Len(inbox) : exec[e].req.trace # inbox[j].trace
           /\ \A e, f \in InHand : e # f => exec[e].req.trace # exec[f].req.trace
<1>1. \A i \in 1 .. Len(inbox) : inbox[i] \in Request
  BY SMT, SMTT(30) DEF TypeOK
<1>2. \A i \in 1 .. Len(Queued) : Queued[i] \in Request
  BY DEF Placed
<1>3. \A e \in InHand : exec[e].req \in Request
  BY DEF Placed
<1>0. Len(inbox) \in Nat /\ Len(Queued) \in Nat
  BY QueuedIs, SMT, SMTT(30) DEF TypeOK
<1>4. \A i, j \in 1 .. Len(inbox) : i # j => inbox[i].trace # inbox[j].trace
  <2> SUFFICES ASSUME NEW i \in 1 .. Len(inbox), NEW j \in 1 .. Len(inbox), i # j
               PROVE  inbox[i].trace # inbox[j].trace
    OBVIOUS
  <2>1. Older(inbox[i], inbox[j]) \/ Older(inbox[j], inbox[i])
    <3>1. i < j \/ j < i
      BY <1>0, SMT, SMTT(30)
    <3> QED BY <3>1 DEF InLine
  <2> QED BY <1>1, <2>1, OlderDiffers
<1>5. \A i, j \in 1 .. Len(Queued) : i # j => Queued[i].trace # Queued[j].trace
  <2> SUFFICES ASSUME NEW i \in 1 .. Len(Queued), NEW j \in 1 .. Len(Queued), i # j
               PROVE  Queued[i].trace # Queued[j].trace
    OBVIOUS
  <2>1. Older(Queued[i], Queued[j]) \/ Older(Queued[j], Queued[i])
    <3>1. i < j \/ j < i
      BY <1>0, SMT, SMTT(30)
    <3> QED BY <3>1 DEF InLine
  <2> QED BY <1>2, <2>1, OlderDiffers
<1>6. \A i \in 1 .. Len(Queued), j \in 1 .. Len(inbox) : Queued[i].trace # inbox[j].trace
  BY <1>1, <1>2, OlderDiffers DEF InLine
<1>7. \A e \in InHand, j \in 1 .. Len(Queued) : exec[e].req.trace # Queued[j].trace
  BY <1>2, <1>3, OlderDiffers DEF InLine
<1>8. \A e \in InHand, j \in 1 .. Len(inbox) : exec[e].req.trace # inbox[j].trace
  BY <1>1, <1>3, OlderDiffers DEF InLine
<1>9. \A e, f \in InHand : e # f => exec[e].req.trace # exec[f].req.trace
  BY DEF InLine
<1> QED BY <1>4, <1>5, <1>6, <1>7, <1>8, <1>9

(***************************************************************************)
(* The threads that run handlers.                                          *)
(***************************************************************************)
Busy == {"run", "stuck"}

SameHands ==
    /\ Executor' = Executor /\ InHand' = InHand
    /\ \A e \in InHand : exec'[e].req = exec[e].req /\ exec'[e].service = exec[e].service

(* An executor without a request stays without. *)
LEMMA HandsKept ==
    ASSUME NEW e \in Executor, NEW x, TypeOK, exec' = [exec EXCEPT ![e] = x],
           exec[e].pc \notin Busy, x.pc \notin Busy
    PROVE  SameHands
<1>1. Executor' = Executor /\ \A f \in Executor : exec'[f] = IF f = e THEN x ELSE exec[f]
  BY DEF Executor, TypeOK
<1> QED BY <1>1 DEF SameHands, InHand, Busy

(* An executor whose handler blocks keeps its request. *)
LEMMA HandsStuck ==
    ASSUME NEW e \in Executor, TypeOK, exec' = [exec EXCEPT ![e].pc = "stuck"],
           exec[e].pc \in Busy
    PROVE  SameHands
<1>1. /\ Executor' = Executor /\ \A f \in Executor : f # e => exec'[f] = exec[f]
      /\ exec'[e] = [exec[e] EXCEPT !.pc = "stuck"]
  BY DEF Executor, TypeOK
<1>2. /\ exec'[e].pc = "stuck" /\ exec'[e].req = exec[e].req
      /\ exec'[e].service = exec[e].service
  BY <1>1, SMT, SMTT(30) DEF TypeOK
<1> QED BY <1>1, <1>2 DEF SameHands, InHand, Busy

(* An executor takes a request. *)
LEMMA HandsTaken ==
    ASSUME NEW e \in Executor, NEW x, TypeOK, exec' = [exec EXCEPT ![e] = x],
           exec[e].pc \notin Busy, x.pc = "run"
    PROVE  /\ Executor' = Executor /\ InHand' = InHand \union {e} /\ e \notin InHand
           /\ \A f \in InHand : exec'[f] = exec[f]
           /\ exec'[e] = x
<1>1. Executor' = Executor /\ \A f \in Executor : exec'[f] = IF f = e THEN x ELSE exec[f]
  BY DEF Executor, TypeOK
<1> QED BY <1>1 DEF InHand, Busy

(* An executor is done with its request. *)
LEMMA HandsFreed ==
    ASSUME NEW e \in Executor, TypeOK, exec' = [exec EXCEPT ![e] = Ready],
           exec[e].pc = "run"
    PROVE  /\ Executor' = Executor /\ InHand' = InHand \ {e} /\ e \in InHand
           /\ \A f \in InHand \ {e} : exec'[f] = exec[f]
<1>1. Executor' = Executor /\ \A f \in Executor : exec'[f] = IF f = e THEN Ready ELSE exec[f]
  BY DEF Executor, TypeOK
<1>2. Ready.pc = "ready"
  BY DEF Ready
<1> QED BY <1>1, <1>2 DEF InHand, Busy

(* The ring does not change by itself. *)
LEMMA QueuedSame ==
    ASSUME UNCHANGED ring
    PROVE  Queued' = Queued
BY DEF ring, Queued

(***************************************************************************)
(* Where the pending requests are after each kind of step: they stay, one  *)
(* is made, one is dropped by the callback, one moves on, one is done.     *)
(***************************************************************************)
LEMMA LineStays ==
    ASSUME Placed, InLine, inbox' = inbox, UNCHANGED ring, SameHands
    PROVE  Placed' /\ InLine' /\ Pending' = Pending
<1>1. Queued' = Queued
  BY QueuedSame
<1>2. Placed'
  BY <1>1 DEF Placed, SameHands, MultiWorkers, ring
<1>3. InLine'
  BY <1>1, SMT, SMTT(30) DEF InLine, SameHands
<1>4. Pending' = Pending
  BY <1>1 DEF Pending, SameHands
<1> QED BY <1>2, <1>3, <1>4

(* A call is made: it is behind the others of its thread. *)
LEMMA LineGrows ==
    ASSUME NEW r \in Request, TypeOK, Placed, InLine, UNCHANGED <<ring, exec>>,
           inbox' = Append(inbox, r), \A p \in Pending : Older(p, r)
    PROVE  Placed' /\ InLine' /\ Pending' = Pending \union {r}
<1>1. Queued' = Queued /\ InHand' = InHand /\ Executor' = Executor
  BY QueuedSame DEF InHand, Executor
<1>2. /\ Len(inbox) \in Nat /\ Len(inbox') = Len(inbox) + 1
      /\ \A i \in 1 .. Len(inbox) : inbox'[i] = inbox[i]
      /\ inbox'[Len(inbox) + 1] = r
  BY SMT, SMTT(30) DEF TypeOK
<1>3. \A i \in 1 .. Len(inbox') : i \in 1 .. Len(inbox) \/ i = Len(inbox) + 1
  BY <1>2, SMT, SMTT(30)
<1>4. /\ \A i \in 1 .. Len(inbox) : Older(inbox[i], r)
      /\ \A i \in 1 .. Len(Queued) : Older(Queued[i], r)
      /\ \A e \in InHand : Older(exec[e].req, r)
  BY PendingIs
<1>5. Placed'
  BY <1>1 DEF Placed, MultiWorkers, ring
<1>6. InLine'
  <2>1. \A i, j \in 1 .. Len(inbox') : i < j => Older(inbox'[i], inbox'[j])
    <3> SUFFICES ASSUME NEW i \in 1 .. Len(inbox'), NEW j \in 1 .. Len(inbox'), i < j
                 PROVE  Older(inbox'[i], inbox'[j])
      OBVIOUS
    <3>1. i \in 1 .. Len(inbox)
      BY <1>2, SMT, SMTT(30)
    <3>2. CASE j \in 1 .. Len(inbox)
      BY <1>2, <3>1, <3>2 DEF InLine
    <3>3. CASE j = Len(inbox) + 1
      BY <1>2, <1>4, <3>1, <3>3
    <3> QED BY <1>3, <3>2, <3>3
  <2>2. \A i \in 1 .. Len(Queued), j \in 1 .. Len(inbox') : Older(Queued[i], inbox'[j])
    BY <1>2, <1>3, <1>4 DEF InLine
  <2>3. \A e \in InHand, j \in 1 .. Len(inbox') : Older(exec[e].req, inbox'[j])
    BY <1>2, <1>3, <1>4 DEF InLine
  <2> QED BY <1>1, <2>1, <2>2, <2>3 DEF InLine
<1>7. Pending' = Pending \union {r}
  <2>1. \A p : p \in Pending' <=> p \in Pending \union {r}
    <3> SUFFICES ASSUME NEW p
                 PROVE  p \in Pending' <=> p \in Pending \union {r}
      OBVIOUS
    <3>1. (\E i \in 1 .. Len(inbox') : p = inbox'[i])
              <=> (\E i \in 1 .. Len(inbox) : p = inbox[i]) \/ p = r
      <4>1. Len(inbox) + 1 \in 1 .. Len(inbox')
        BY <1>2, SMT, SMTT(30)
      <4>2. \A i \in 1 .. Len(inbox) : i \in 1 .. Len(inbox')
        BY <1>2, SMT, SMTT(30)
      <4> QED BY <1>2, <1>3, <4>1, <4>2
    <3> QED BY <1>1, <3>1, PendingIs, PendingAfter, SMT, SMTT(30)
  <2> QED BY <2>1
<1> QED BY <1>5, <1>6, <1>7

(* The channel without its first request. *)
LEMMA InboxTail ==
    ASSUME TypeOK, inbox # <<>>, inbox' = Tail(inbox)
    PROVE  /\ Len(inbox) \in Nat /\ Len(inbox) >= 1 /\ Len(inbox') = Len(inbox) - 1
           /\ \A i \in 1 .. Len(inbox') : /\ i + 1 \in 1 .. Len(inbox) /\ i + 1 # 1
                                          /\ inbox'[i] = inbox[i + 1]
           /\ \A i \in 1 .. Len(inbox) : i = 1 \/ (i - 1 \in 1 .. Len(inbox') /\ inbox[i] = inbox'[i - 1])
           /\ Head(inbox) = inbox[1] /\ Head(inbox) \in Request /\ 1 \in 1 .. Len(inbox)
           /\ inbox' \in Seq(Request)
<1>1. inbox \in Seq(Request)
  BY DEF TypeOK
<1>2. /\ Len(inbox) \in Nat /\ Len(inbox) >= 1 /\ Len(inbox') = Len(inbox) - 1
      /\ \A i \in 1 .. Len(inbox') : inbox'[i] = inbox[i + 1]
      /\ Head(inbox) = inbox[1] /\ Head(inbox) \in Request /\ inbox' \in Seq(Request)
  BY <1>1, SMT, SMTT(30)
<1>3. \A i \in 1 .. Len(inbox') : i + 1 \in 1 .. Len(inbox) /\ i + 1 # 1
  BY <1>2, SMT, SMTT(30)
<1>4. \A i \in 1 .. Len(inbox) : i = 1 \/ (i - 1 \in 1 .. Len(inbox') /\ inbox[i] = inbox'[i - 1])
  BY <1>2, SMT, SMTT(30)
<1> QED BY <1>2, <1>3, <1>4, SMT, SMTT(30)

(* A call is pending with one request. *)
LEMMA OneTrace ==
    ASSUME TypeOK, Placed, InLine, NEW p1 \in Pending, NEW p2 \in Pending,
           p1.trace = p2.trace
    PROVE  p1 = p2
<1> DEFINE in1 == \E i \in 1 .. Len(inbox) : p1 = inbox[i]
           qu1 == \E i \in 1 .. Len(Queued) : p1 = Queued[i]
           ha1 == \E e \in InHand : p1 = exec[e].req
           in2 == \E i \in 1 .. Len(inbox) : p2 = inbox[i]
           qu2 == \E i \in 1 .. Len(Queued) : p2 = Queued[i]
           ha2 == \E e \in InHand : p2 = exec[e].req
<1>1. (in1 \/ qu1 \/ ha1) /\ (in2 \/ qu2 \/ ha2)
  BY PendingIs
<1>2. CASE in1
  BY <1>1, <1>2, TracesDiffer
<1>3. CASE qu1
  BY <1>1, <1>3, TracesDiffer
<1>4. CASE ha1
  BY <1>1, <1>4, TracesDiffer
<1> QED BY <1>1, <1>2, <1>3, <1>4

(* The callback takes a request from the channel and refuses it. *)
LEMMA LineDrops ==
    ASSUME TypeOK, Placed, InLine, inbox # <<>>, inbox' = Tail(inbox), UNCHANGED <<ring, exec>>
    PROVE  /\ Placed' /\ InLine'
           /\ Head(inbox) \in Pending /\ Pending' = Pending \ {Head(inbox)}
<1>1. Queued' = Queued /\ InHand' = InHand /\ Executor' = Executor
  BY QueuedSame DEF InHand, Executor
<1>2. /\ Len(inbox) \in Nat /\ Len(inbox) >= 1 /\ Len(inbox') = Len(inbox) - 1
      /\ \A i \in 1 .. Len(inbox') : /\ i + 1 \in 1 .. Len(inbox) /\ i + 1 # 1
                                     /\ inbox'[i] = inbox[i + 1]
      /\ \A i \in 1 .. Len(inbox) : i = 1 \/ (i - 1 \in 1 .. Len(inbox') /\ inbox[i] = inbox'[i - 1])
      /\ Head(inbox) = inbox[1] /\ Head(inbox) \in Request /\ 1 \in 1 .. Len(inbox)
  BY InboxTail
<1>3. Placed'
  BY <1>1 DEF Placed, MultiWorkers, ring
<1>4. InLine'
  <2>1. \A i, j \in 1 .. Len(inbox') : i < j => Older(inbox'[i], inbox'[j])
    <3> SUFFICES ASSUME NEW i \in 1 .. Len(inbox'), NEW j \in 1 .. Len(inbox'), i < j
                 PROVE  Older(inbox'[i], inbox'[j])
      OBVIOUS
    <3>1. i + 1 < j + 1 /\ i + 1 \in 1 .. Len(inbox) /\ j + 1 \in 1 .. Len(inbox)
      BY <1>2, SMT, SMTT(30)
    <3>2. Older(inbox[i + 1], inbox[j + 1])
      BY <3>1 DEF InLine
    <3> QED BY <1>2, <3>2
  <2>2. \A i \in 1 .. Len(Queued), j \in 1 .. Len(inbox') : Older(Queued[i], inbox'[j])
    BY <1>2 DEF InLine
  <2>3. \A e \in InHand, j \in 1 .. Len(inbox') : Older(exec[e].req, inbox'[j])
    BY <1>2 DEF InLine
  <2> QED BY <1>1, <2>1, <2>2, <2>3 DEF InLine
<1>5. Head(inbox) \in Pending
  BY <1>2, PendingIs
<1>6. \A p : p \in Pending' <=> p \in Pending /\ p # Head(inbox)
  <2> SUFFICES ASSUME NEW p
               PROVE  p \in Pending' <=> p \in Pending /\ p # Head(inbox)
    OBVIOUS
  <2>1. ASSUME p \in Pending'
        PROVE  p \in Pending /\ p # Head(inbox)
    <3>1. \/ \E i \in 1 .. Len(inbox') : p = inbox'[i]
          \/ \E i \in 1 .. Len(Queued) : p = Queued[i]
          \/ \E e \in InHand : p = exec[e].req
      BY <1>1, <2>1, PendingAfter
    <3>2. CASE \E i \in 1 .. Len(inbox') : p = inbox'[i]
      BY <1>2, <3>2, PendingIs, TracesDiffer, SMT, SMTT(30)
    <3>3. CASE \E i \in 1 .. Len(Queued) : p = Queued[i]
      BY <1>2, <3>3, PendingIs, TracesDiffer, SMT, SMTT(30)
    <3>4. CASE \E e \in InHand : p = exec[e].req
      BY <1>2, <3>4, PendingIs, TracesDiffer, SMT, SMTT(30)
    <3> QED BY <3>1, <3>2, <3>3, <3>4
  <2>2. ASSUME p \in Pending, p # Head(inbox)
        PROVE  p \in Pending'
    <3>1. \/ \E i \in 1 .. Len(inbox) : p = inbox[i]
          \/ \E i \in 1 .. Len(Queued') : p = Queued'[i]
          \/ \E e \in InHand' : p = exec'[e].req
      BY <1>1, <2>2, PendingIs
    <3>2. (\E i \in 1 .. Len(inbox) : p = inbox[i])
              => \E i \in 1 .. Len(inbox') : p = inbox'[i]
      BY <1>2, <2>2, Zenon
    <3> QED BY <3>1, <3>2, PendingAfter
  <2> QED BY <2>1, <2>2
<1> QED BY <1>3, <1>4, <1>5, <1>6

(* The callback moves a request from the channel to the ring. *)
LEMMA LineEnqueues ==
    ASSUME TypeOK, Placed, InLine, inbox # <<>>, inbox' = Tail(inbox), SameHands, MultiWorkers,
           Found[Head(inbox).name] # None, ~Full, q' = [q EXCEPT ![tail] = Head(inbox)],
           tail' = IF tail + 1 = QueueSize THEN 0 ELSE tail + 1, head' = head
    PROVE  Placed' /\ InLine' /\ Pending' = Pending
<1> DEFINE r == Head(inbox)
           n == Len(Queued)
<1>1. InHand' = InHand /\ Executor' = Executor /\ MultiWorkers'
  BY DEF SameHands, MultiWorkers
<1>2. /\ Len(inbox) \in Nat /\ Len(inbox) >= 1 /\ Len(inbox') = Len(inbox) - 1
      /\ \A i \in 1 .. Len(inbox') : /\ i + 1 \in 1 .. Len(inbox) /\ i + 1 # 1
                                     /\ inbox'[i] = inbox[i + 1]
      /\ \A i \in 1 .. Len(inbox) : i = 1 \/ (i - 1 \in 1 .. Len(inbox') /\ inbox[i] = inbox'[i - 1])
      /\ r = inbox[1] /\ r \in Request /\ 1 \in 1 .. Len(inbox)
  BY InboxTail
<1>3. /\ n \in Nat /\ Len(Queued') = n + 1
      /\ \A i \in 1 .. n : Queued'[i] = Queued[i]
      /\ Queued'[n + 1] = r
  <2>1. /\ Len(Queued') = Len(Queued) + 1
        /\ \A i \in 1 .. Len(Queued) : Queued'[i] = Queued[i]
        /\ Queued'[Len(Queued) + 1] = Head(inbox)
    BY Enqueued, Zenon
  <2>2. Len(Queued) \in Nat
    BY QueuedIs, RpcAssumption, SMT, SMTT(30)
  <2> QED BY <2>1, <2>2
<1>4. /\ \A i \in 1 .. Len(Queued') : i \in 1 .. n \/ i = n + 1
      /\ \A i \in 1 .. n : i \in 1 .. Len(Queued')
      /\ n + 1 \in 1 .. Len(Queued')
  BY <1>3, SMT, SMTT(30)
<1> HIDE DEF r, n
<1>5. Placed'
  <2>1. \A i \in 1 .. Len(Queued') : Queued'[i] \in Request /\ Found[Queued'[i].name] # None
    BY <1>2, <1>3, <1>4 DEF Placed, r, n
  <2>2. \A e \in InHand' : /\ exec'[e].req \in Request
                           /\ exec'[e].service = Found[exec'[e].req.name]
                           /\ exec'[e].service # None
    BY DEF Placed, SameHands
  <2> QED BY <1>1, <2>1, <2>2 DEF Placed
<1>6. InLine'
  <2>1. \A i, j \in 1 .. Len(inbox') : i < j => Older(inbox'[i], inbox'[j])
    <3> SUFFICES ASSUME NEW i \in 1 .. Len(inbox'), NEW j \in 1 .. Len(inbox'), i < j
                 PROVE  Older(inbox'[i], inbox'[j])
      OBVIOUS
    <3>1. i + 1 < j + 1 /\ i + 1 \in 1 .. Len(inbox) /\ j + 1 \in 1 .. Len(inbox)
      BY <1>2, SMT, SMTT(30)
    <3>2. Older(inbox[i + 1], inbox[j + 1])
      BY <3>1 DEF InLine
    <3> QED BY <1>2, <3>2
  <2>2. \A i, j \in 1 .. Len(Queued') : i < j => Older(Queued'[i], Queued'[j])
    <3> SUFFICES ASSUME NEW i \in 1 .. Len(Queued'), NEW j \in 1 .. Len(Queued'), i < j
                 PROVE  Older(Queued'[i], Queued'[j])
      OBVIOUS
    <3>1. i \in 1 .. n
      BY <1>3, SMT, SMTT(30)
    <3>2. CASE j \in 1 .. n
      BY <1>3, <3>1, <3>2 DEF InLine, n
    <3>3. CASE j = n + 1
      BY <1>2, <1>3, <3>1, <3>3 DEF InLine, n
    <3> QED BY <1>4, <3>2, <3>3
  <2>3. \A i \in 1 .. Len(Queued'), j \in 1 .. Len(inbox') : Older(Queued'[i], inbox'[j])
    <3> SUFFICES ASSUME NEW i \in 1 .. Len(Queued'), NEW j \in 1 .. Len(inbox')
                 PROVE  Older(Queued'[i], inbox'[j])
      OBVIOUS
    <3>1. CASE i \in 1 .. n
      BY <1>2, <1>3, <3>1 DEF InLine, n
    <3>2. CASE i = n + 1
      <4>1. 1 < j + 1 /\ j + 1 \in 1 .. Len(inbox)
        BY <1>2, SMT, SMTT(30)
      <4>2. Older(inbox[1], inbox[j + 1])
        BY <1>2, <4>1 DEF InLine
      <4> QED BY <1>2, <1>3, <3>2, <4>2
    <3> QED BY <1>4, <3>1, <3>2
  <2>4. \A e \in InHand' : /\ \A j \in 1 .. Len(Queued') : Older(exec'[e].req, Queued'[j])
                           /\ \A j \in 1 .. Len(inbox') : Older(exec'[e].req, inbox'[j])
    BY <1>1, <1>2, <1>3, <1>4, SMT, SMTT(30) DEF InLine, SameHands, n
  <2>5. \A e, f \in InHand' : e # f => exec'[e].req.trace # exec'[f].req.trace
    BY SMT, SMTT(30) DEF InLine, SameHands
  <2> QED BY <2>1, <2>2, <2>3, <2>4, <2>5 DEF InLine
<1>7. \A p : p \in Pending' <=> p \in Pending
  <2> SUFFICES ASSUME NEW p
               PROVE  p \in Pending' <=> p \in Pending
    OBVIOUS
  <2>1. (\E e \in InHand' : p = exec'[e].req) <=> (\E e \in InHand : p = exec[e].req)
    BY DEF SameHands
  <2>2. (\E i \in 1 .. Len(Queued') : p = Queued'[i])
            <=> (\E i \in 1 .. Len(Queued) : p = Queued[i]) \/ p = r
    BY <1>3, <1>4, Zenon DEF n
  <2>3. (\E i \in 1 .. Len(inbox') : p = inbox'[i]) \/ p = r
            <=> \E i \in 1 .. Len(inbox) : p = inbox[i]
    <3>1. ASSUME NEW i \in 1 .. Len(inbox'), p = inbox'[i]
          PROVE  \E k \in 1 .. Len(inbox) : p = inbox[k]
      BY <1>2, <3>1
    <3>2. p = r => \E k \in 1 .. Len(inbox) : p = inbox[k]
      BY <1>2
    <3>3. ASSUME NEW i \in 1 .. Len(inbox), p = inbox[i]
          PROVE  (\E k \in 1 .. Len(inbox') : p = inbox'[k]) \/ p = r
      BY <1>2, <3>3
    <3> QED BY <3>1, <3>2, <3>3
  <2> QED BY <2>1, <2>2, <2>3, PendingIs, PendingAfter
<1> QED BY <1>5, <1>6, <1>7, Zenon

(* A worker moves the oldest request from the ring to its hand. *)
LEMMA LineDequeues ==
    ASSUME NEW w \in Executor, TypeOK, Placed, InLine, UNCHANGED <<inbox, q, tail>>,
           MultiWorkers, head # tail, exec[w].pc \notin Busy,
           head' = IF head + 1 = QueueSize THEN 0 ELSE head + 1,
           exec' = [exec EXCEPT ![w] = [pc |-> "run", req |-> q[head],
                                        service |-> Found[q[head].name]]]
    PROVE  Placed' /\ InLine' /\ Pending' = Pending
<1> DEFINE n == Len(Queued)
           x == [pc |-> "run", req |-> q[head], service |-> Found[q[head].name]]
<1>1. /\ Executor' = Executor /\ InHand' = InHand \union {w} /\ w \notin InHand
      /\ \A f \in InHand : exec'[f] = exec[f]
      /\ exec'[w] = x
  <2>1. x.pc = "run"
    OBVIOUS
  <2> QED BY <2>1, HandsTaken, Zenon
<1>2. exec'[w].req = q[head] /\ exec'[w].service = Found[q[head].name] /\ MultiWorkers'
  BY <1>1, SMT, SMTT(30) DEF MultiWorkers
<1> HIDE DEF x
<1>3. /\ n \in Nat /\ n >= 1 /\ Queued[1] = q[head] /\ Len(Queued') = n - 1
      /\ \A i \in 1 .. n - 1 : Queued'[i] = Queued[i + 1]
  <2>1. /\ Len(Queued) >= 1 /\ Queued[1] = q[head]
        /\ Len(Queued') = Len(Queued) - 1
        /\ \A i \in 1 .. Len(Queued) - 1 : Queued'[i] = Queued[i + 1]
    BY Dequeued
  <2>2. Len(Queued) \in Nat
    BY QueuedIs, RpcAssumption, SMT, SMTT(30)
  <2> QED BY <2>1, <2>2
<1>4. /\ \A i \in 1 .. Len(Queued') : /\ i + 1 \in 1 .. Len(Queued) /\ 1 < i + 1
                                      /\ Queued'[i] = Queued[i + 1]
      /\ \A i \in 1 .. Len(Queued) : i = 1 \/ (i - 1 \in 1 .. Len(Queued') /\ Queued[i] = Queued'[i - 1])
      /\ 1 \in 1 .. Len(Queued)
  BY <1>3, SMT, SMTT(30)
<1> HIDE DEF n
<1>5. Placed'
  <2>1. \A i \in 1 .. Len(Queued') : Queued'[i] \in Request /\ Found[Queued'[i].name] # None
    BY <1>4 DEF Placed
  <2>2. \A e \in InHand' : /\ exec'[e].req \in Request
                           /\ exec'[e].service = Found[exec'[e].req.name]
                           /\ exec'[e].service # None
    <3>1. /\ exec'[w].req \in Request
          /\ exec'[w].service = Found[exec'[w].req.name]
          /\ exec'[w].service # None
      BY <1>2, <1>3, <1>4 DEF Placed
    <3> QED BY <1>1, <3>1 DEF Placed
  <2> QED BY <1>2, <2>1, <2>2 DEF Placed
<1>6. InLine'
  <2>1. \A i, j \in 1 .. Len(Queued') : i < j => Older(Queued'[i], Queued'[j])
    <3> SUFFICES ASSUME NEW i \in 1 .. Len(Queued'), NEW j \in 1 .. Len(Queued'), i < j
                 PROVE  Older(Queued'[i], Queued'[j])
      OBVIOUS
    <3>1. i + 1 < j + 1 /\ i + 1 \in 1 .. Len(Queued) /\ j + 1 \in 1 .. Len(Queued)
      BY <1>3, <1>4, SMT, SMTT(30)
    <3>2. Older(Queued[i + 1], Queued[j + 1])
      BY <3>1 DEF InLine
    <3> QED BY <1>4, <3>2
  <2>2. \A i \in 1 .. Len(Queued'), j \in 1 .. Len(inbox') : Older(Queued'[i], inbox'[j])
    BY <1>4 DEF InLine
  <2>3. \A e \in InHand' : /\ \A j \in 1 .. Len(Queued') : Older(exec'[e].req, Queued'[j])
                           /\ \A j \in 1 .. Len(inbox') : Older(exec'[e].req, inbox'[j])
    <3>1. \A j \in 1 .. Len(Queued') : Older(Queued[1], Queued'[j])
      BY <1>4 DEF InLine
    <3>2. \A j \in 1 .. Len(inbox) : Older(Queued[1], inbox[j])
      BY <1>4 DEF InLine
    <3>3. \A e \in InHand : /\ \A j \in 1 .. Len(Queued') : Older(exec[e].req, Queued'[j])
                            /\ \A j \in 1 .. Len(inbox) : Older(exec[e].req, inbox[j])
      BY <1>4 DEF InLine
    <3> QED BY <1>1, <1>2, <1>3, <3>1, <3>2, <3>3
  <2>4. \A e, f \in InHand' : e # f => exec'[e].req.trace # exec'[f].req.trace
    <3>1. \A e \in InHand : exec[e].req.trace # exec'[w].req.trace
      <4>1. exec'[w].req = Queued[1] /\ 1 \in 1 .. Len(Queued)
        BY <1>2, <1>3, <1>4
      <4> QED BY <4>1, TracesDiffer, Zenon
    <3>2. \A e, f \in InHand : e # f => exec[e].req.trace # exec[f].req.trace
      BY DEF InLine
    <3> QED BY <1>1, <3>1, <3>2, SMT, SMTT(30)
  <2>5. \A i, j \in 1 .. Len(inbox') : i < j => Older(inbox'[i], inbox'[j])
    BY DEF InLine
  <2> QED BY <2>1, <2>2, <2>3, <2>4, <2>5 DEF InLine
<1>7. \A p : p \in Pending' <=> p \in Pending
  <2> SUFFICES ASSUME NEW p
               PROVE  p \in Pending' <=> p \in Pending
    OBVIOUS
  <2>1. (\E e \in InHand' : p = exec'[e].req) <=> (\E e \in InHand : p = exec[e].req) \/ p = Queued[1]
    BY <1>1, <1>2, <1>3
  <2>2. (\E i \in 1 .. Len(Queued') : p = Queued'[i]) \/ p = Queued[1]
            <=> \E i \in 1 .. Len(Queued) : p = Queued[i]
    BY <1>4
  <2> QED BY <2>1, <2>2, PendingIs, PendingAfter
<1> QED BY <1>5, <1>6, <1>7, Zenon

(* Without workers the line is empty, and so is the notifier's hand. *)
LEMMA NoLine ==
    ASSUME TypeOK, Placed, ~MultiWorkers
    PROVE  Executor = {"notifier"} /\ Len(Queued) = 0 /\ \A i \in 1 .. Len(Queued) : FALSE
<1>1. Executor = {"notifier"}
  BY RpcAssumption DEF TypeOK, MultiWorkers
<1>2. head = tail
  BY DEF Placed
<1>3. Len(Queued) = Count(head, tail)
  BY QueuedIs
<1>4. Len(Queued) = 0
  BY <1>2, <1>3, SMT, SMTT(30) DEF Count, TypeOK
<1> QED BY <1>1, <1>4, SMT, SMTT(30)

(* Without workers the callback moves a request from the channel to its own hand. *)
LEMMA LineRuns ==
    ASSUME TypeOK, Placed, InLine, inbox # <<>>, inbox' = Tail(inbox), UNCHANGED ring,
           ~MultiWorkers, exec["notifier"].pc = "ready", Found[Head(inbox).name] # None,
           exec' = [exec EXCEPT !["notifier"] =
                       [pc |-> "run", req |-> Head(inbox), service |-> Found[Head(inbox).name]]]
    PROVE  Placed' /\ InLine' /\ Pending' = Pending
<1> DEFINE r == Head(inbox)
           x == [pc |-> "run", req |-> r, service |-> Found[r.name]]
<1>1. Executor = {"notifier"} /\ Len(Queued) = 0 /\ Queued' = Queued
  BY NoLine, QueuedSame
<1>2. /\ Executor' = Executor /\ InHand' = InHand \union {"notifier"}
      /\ "notifier" \notin InHand /\ exec'["notifier"] = x
  <2>1. x.pc = "run" /\ "notifier" \in Executor /\ exec["notifier"].pc \notin Busy
    BY <1>1 DEF Busy
  <2> QED BY <2>1, HandsTaken, Zenon
<1>3. /\ InHand = {} /\ InHand' = {"notifier"} /\ exec'["notifier"].req = r
      /\ exec'["notifier"].service = Found[r.name]
  BY <1>1, <1>2, SMT, SMTT(30) DEF InHand
<1>4. /\ Len(inbox) \in Nat /\ Len(inbox) >= 1 /\ Len(inbox') = Len(inbox) - 1
      /\ \A i \in 1 .. Len(inbox') : /\ i + 1 \in 1 .. Len(inbox) /\ i + 1 # 1
                                     /\ inbox'[i] = inbox[i + 1]
      /\ \A i \in 1 .. Len(inbox) : i = 1 \/ (i - 1 \in 1 .. Len(inbox') /\ inbox[i] = inbox'[i - 1])
      /\ r = inbox[1] /\ r \in Request /\ 1 \in 1 .. Len(inbox)
  BY InboxTail
<1> HIDE DEF r, x
<1>5. \A i \in 1 .. Len(Queued') : FALSE
  BY <1>1, SMT, SMTT(30)
<1>6. Placed'
  <2>1. \A e \in InHand' : /\ exec'[e].req \in Request
                           /\ exec'[e].service = Found[exec'[e].req.name]
                           /\ exec'[e].service # None
    BY <1>3, <1>4 DEF r
  <2>2. head' = tail'
    BY DEF Placed, ring
  <2> QED BY <1>5, <2>1, <2>2 DEF Placed
<1>7. InLine'
  <2>1. \A i, j \in 1 .. Len(inbox') : i < j => Older(inbox'[i], inbox'[j])
    <3> SUFFICES ASSUME NEW i \in 1 .. Len(inbox'), NEW j \in 1 .. Len(inbox'), i < j
                 PROVE  Older(inbox'[i], inbox'[j])
      BY Zenon
    <3>1. i + 1 < j + 1 /\ i + 1 \in 1 .. Len(inbox) /\ j + 1 \in 1 .. Len(inbox)
      BY <1>4, SMT, SMTT(30)
    <3>2. Older(inbox[i + 1], inbox[j + 1])
      BY <3>1 DEF InLine
    <3> QED BY <1>4, <3>2, ZenonT(40)
  <2>2. \A e \in InHand' : \A j \in 1 .. Len(inbox') : Older(exec'[e].req, inbox'[j])
    <3>1. \A j \in 1 .. Len(inbox') : 1 < j + 1 /\ Older(inbox[1], inbox[j + 1])
      BY <1>4, SMT, SMTT(30) DEF InLine
    <3> QED BY <1>3, <1>4, <3>1
  <2>3. \A e, f \in InHand' : e = f
    BY <1>3
  <2> QED BY <1>5, <2>1, <2>2, <2>3, ZenonT(40) DEF InLine
<1>8. \A p : p \in Pending' <=> p \in Pending
  <2> SUFFICES ASSUME NEW p
               PROVE  p \in Pending' <=> p \in Pending
    OBVIOUS
  <2>1. (\E e \in InHand' : p = exec'[e].req) <=> p = r
    BY <1>3
  <2>2. ~(\E e \in InHand : p = exec[e].req) /\ ~(\E i \in 1 .. Len(Queued') : p = Queued'[i])
        /\ ~(\E i \in 1 .. Len(Queued) : p = Queued[i])
    BY <1>1, <1>3, SMT, SMTT(30)
  <2>3. (\E i \in 1 .. Len(inbox') : p = inbox'[i]) \/ p = r
            <=> \E i \in 1 .. Len(inbox) : p = inbox[i]
    BY <1>4, ZenonT(40)
  <2> QED BY <2>1, <2>2, <2>3, PendingIs, PendingAfter
<1> QED BY <1>6, <1>7, <1>8, Zenon

(* A handler returns, and its request is pending no longer. *)
LEMMA LineDone ==
    ASSUME NEW e \in Executor, TypeOK, Placed, InLine, UNCHANGED <<inbox, ring>>,
           exec[e].pc = "run", exec' = [exec EXCEPT ![e] = Ready]
    PROVE  /\ Placed' /\ InLine'
           /\ exec[e].req \in Pending /\ Pending' = Pending \ {exec[e].req}
<1>1. /\ Executor' = Executor /\ InHand' = InHand \ {e} /\ e \in InHand
      /\ \A f \in InHand \ {e} : exec'[f] = exec[f]
  BY HandsFreed, Zenon
<1>2. Queued' = Queued
  BY QueuedSame
<1>3. Placed'
  BY <1>1, <1>2 DEF Placed, MultiWorkers, ring
<1>4. InLine'
  BY <1>1, <1>2, SMT, SMTT(30) DEF InLine
<1>5. exec[e].req \in Pending
  BY <1>1, PendingIs
<1>6. \A p : p \in Pending' <=> p \in Pending /\ p # exec[e].req
  <2> SUFFICES ASSUME NEW p
               PROVE  p \in Pending' <=> p \in Pending /\ p # exec[e].req
    OBVIOUS
  <2>1. (\E f \in InHand' : p = exec'[f].req)
            <=> (\E f \in InHand : p = exec[f].req) /\ p # exec[e].req
    BY <1>1, TracesDiffer, SMT, SMTT(30)
  <2>2. (\E i \in 1 .. Len(Queued) : p = Queued[i]) => p # exec[e].req
    BY <1>1, TracesDiffer, SMT, SMTT(30)
  <2>3. (\E i \in 1 .. Len(inbox) : p = inbox[i]) => p # exec[e].req
    BY <1>1, TracesDiffer, SMT, SMTT(30)
  <2> QED BY <1>2, <2>1, <2>2, <2>3, PendingIs, PendingAfter
<1> QED BY <1>3, <1>4, <1>5, <1>6

-----------------------------------------------------------------------------
(***************************************************************************)
(* What has become of the calls, the handles and the FILEs.                *)
(***************************************************************************)
Rest == Accounted /\ OwnHandles /\ FilesLast /\ MisusedOnlyInHaste

Made(c) == c \in Trace /\ c[2] <= client[c[1]].calls

(* Calls accounted for, one by one. *)
LEMMA AccountedIs ==
    Accounted <=> /\ \A c : (\E p \in Pending : p.trace = c) \/ c \in ended <=> Made(c)
                  /\ \A r \in Pending : r.trace \notin ended
                  /\ \A i \in 1 .. Len(out) : out[i].trace \in ended \union {NoTrace}
<1>1. ({r.trace : r \in Pending} \union ended = {c \in Trace : c[2] <= client[c[1]].calls})
        <=> \A c : (\E p \in Pending : p.trace = c) \/ c \in ended <=> Made(c)
  BY DEF Made
<1> QED BY <1>1 DEF Accounted

(* The same after a step. *)
LEMMA AccountedAfter ==
    Accounted' <=> /\ \A c : (\E p \in Pending' : p.trace = c) \/ c \in ended' <=> Made(c)'
                   /\ \A r \in Pending' : r.trace \notin ended'
                   /\ \A i \in 1 .. Len(out') : out'[i].trace \in ended' \union {NoTrace}
<1>1. ({r.trace : r \in Pending'} \union ended' = {c \in Trace : c[2] <= client'[c[1]].calls})
        <=> \A c : (\E p \in Pending' : p.trace = c) \/ c \in ended' <=> Made(c)'
  BY DEF Made
<1> QED BY <1>1 DEF Accounted

(* An answer more, or none. *)
LEMMA Answers ==
    ASSUME TypeOK, NEW a, out' = out \/ out' = Append(out, a)
    PROVE  /\ Len(out) \in Nat
           /\ \A i \in 1 .. Len(out') : (i \in 1 .. Len(out) /\ out'[i] = out[i]) \/ out'[i] = a
<1>1. out \in Seq(Answer) /\ Len(out) \in Nat
  BY SMT, SMTT(30) DEF TypeOK
<1>2. CASE out' = out
  BY <1>1, <1>2
<1>3. CASE out' = Append(out, a)
  BY <1>1, <1>3, SMT, SMTT(30)
<1> QED BY <1>1, <1>2, <1>3

(* A request moves from one place to the next. *)
LEMMA Moved ==
    ASSUME Rest, Pending' = Pending, Executor' = Executor,
           UNCHANGED <<client, out, open, ended, misused, hurried>>
    PROVE  Rest'
<1>1. Accounted'
  BY DEF Rest, Accounted
<1>2. OwnHandles'
  BY DEF Rest, OwnHandles
<1>3. FilesLast'
  <2>1. \A h \in Trace : (InHaste(h)' <=> InHaste(h)) /\ (Has(h)' <=> Has(h))
    BY DEF InHaste, Has, MultiWorkers
  <2>2. MultiWorkers' <=> MultiWorkers
    BY DEF MultiWorkers
  <2> QED BY <2>1, <2>2, SMT, SMTT(30) DEF Rest, FilesLast, Gone
<1>4. MisusedOnlyInHaste'
  BY DEF Rest, MisusedOnlyInHaste, MultiWorkers
<1> QED BY <1>1, <1>2, <1>3, <1>4 DEF Rest

(* A request the callback refuses, cannot copy or finds no room for. *)
LEMMA Dropped ==
    ASSUME NEW r \in Pending, NEW a, TypeOK, Placed, InLine, Rest, Pending' = Pending \ {r},
           Executor' = Executor, UNCHANGED <<client, open, misused, hurried>>,
           ended' = ended \union {r.trace}, out' = out \/ out' = Append(out, a),
           a.trace = NoTrace, a.opened = NoTrace
    PROVE  Rest'
<1>1. /\ Len(out) \in Nat
      /\ \A i \in 1 .. Len(out') : (i \in 1 .. Len(out) /\ out'[i] = out[i]) \/ out'[i] = a
  BY Answers
<1>2. \A p \in Pending : p \in Request /\ (p.trace = r.trace => p = r)
  BY PendingType, OneTrace
<1>3. Accounted'
  <2>1. \A c : (\E p \in Pending : p.trace = c) \/ c \in ended <=> Made(c)
    BY AccountedIs DEF Rest
  <2>2. \A c : Made(c)' <=> Made(c)
    BY DEF Made
  <2>3. \A c : (\E p \in Pending' : p.trace = c) \/ c \in ended'
                   <=> (\E p \in Pending : p.trace = c) \/ c \in ended
    OBVIOUS
  <2>4. \A p \in Pending' : p.trace \notin ended'
    BY <1>2, AccountedIs DEF Rest
  <2>5. \A i \in 1 .. Len(out') : out'[i].trace \in ended' \union {NoTrace}
    BY <1>1, AccountedIs DEF Rest
  <2> QED BY <2>1, <2>2, <2>3, <2>4, <2>5, AccountedAfter
<1>4. OwnHandles'
  BY <1>1 DEF Rest, OwnHandles
<1>5. FilesLast'
  <2>1. \A h \in Trace : InHaste(h)' <=> InHaste(h)
    BY DEF InHaste, MultiWorkers
  <2>2. MultiWorkers' <=> MultiWorkers
    BY DEF MultiWorkers
  <2>3. \A h \in Trace : Has(h)' => Has(h)
    BY <1>1, TraceFacts DEF Has
  <2> QED BY <2>1, <2>2, <2>3, SMT, SMTT(30) DEF Rest, FilesLast, Gone
<1>6. MisusedOnlyInHaste'
  BY DEF Rest, MisusedOnlyInHaste, MultiWorkers
<1> QED BY <1>3, <1>4, <1>5, <1>6 DEF Rest

(* A caller gives up. *)
LEMMA TimedOut ==
    ASSUME NEW t \in Thread, TypeOK, Rest, Pending' = Pending, Executor' = Executor,
           client' = [client EXCEPT ![t].waits = FALSE],
           UNCHANGED <<out, open, ended, misused, hurried>>
    PROVE  Rest'
<1>1. \A u \in Thread : /\ client'[u].calls = client[u].calls
                        /\ client'[u].holds = client[u].holds
                        /\ client'[u].waits => client[u].waits
  <2>1. \A u \in Thread : u # t => client'[u] = client[u]
    BY DEF TypeOK
  <2>2. client'[t] = [client[t] EXCEPT !.waits = FALSE]
    BY DEF TypeOK
  <2> QED BY <2>1, <2>2, SMT, SMTT(30) DEF TypeOK
<1>2. Accounted'
  <2>1. \A c : Made(c)' <=> Made(c)
    BY <1>1, TraceFacts DEF Made
  <2> QED BY <2>1, AccountedIs, AccountedAfter DEF Rest
<1>3. OwnHandles'
  BY <1>1, SMT, SMTT(30) DEF Rest, OwnHandles
<1>4. FilesLast'
  <2>1. \A h \in Trace : (InHaste(h)' <=> InHaste(h)) /\ (Has(h)' => Has(h))
    BY <1>1, TraceFacts DEF InHaste, Has, MultiWorkers
  <2>2. MultiWorkers' <=> MultiWorkers
    BY DEF MultiWorkers
  <2> QED BY <2>1, <2>2, SMT, SMTT(30) DEF Rest, FilesLast, Gone
<1>5. MisusedOnlyInHaste'
  BY DEF Rest, MisusedOnlyInHaste, MultiWorkers
<1> QED BY <1>2, <1>3, <1>4, <1>5 DEF Rest

(* An answer is taken, or ignored. *)
LEMMA Received ==
    ASSUME TypeOK, Rest, Pending' = Pending, Executor' = Executor, ClientReceives
    PROVE  Rest'
<1> DEFINE a == Head(out)
           mine(u) == client[u].waits /\ a.trace = <<u, client[u].calls>>
<1>1. /\ Len(out) \in Nat /\ 1 \in 1 .. Len(out) /\ a = out[1] /\ a \in Answer
      /\ \A i \in 1 .. Len(out') : i + 1 \in 1 .. Len(out) /\ out'[i] = out[i + 1]
  <2>1. out \in Seq(Answer) /\ out # <<>> /\ out' = Tail(out)
    BY Zenon DEF TypeOK, ClientReceives
  <2>2. /\ Len(out) \in Nat /\ Len(out) >= 1 /\ a = out[1] /\ a \in Answer
        /\ Len(out') = Len(out) - 1 /\ \A i \in 1 .. Len(out') : out'[i] = out[i + 1]
    BY <2>1, SMT, SMTT(30)
  <2> QED BY <2>2, SMT, SMTT(30)
<1>2. \A u \in Thread :
        client'[u] = IF mine(u)
                     THEN [client[u] EXCEPT !.waits = FALSE,
                              !.holds = IF a.opened # NoTrace THEN a.opened ELSE @]
                     ELSE client[u]
  BY Zenon DEF ClientReceives
<1> HIDE DEF a
<1>3. \A u \in Thread : /\ client'[u].calls = client[u].calls
                        /\ client'[u].waits => client[u].waits
                        /\ \/ client'[u].holds = client[u].holds
                           \/ mine(u) /\ a.opened # NoTrace /\ client'[u].holds = a.opened
  <2> SUFFICES ASSUME NEW u \in Thread
               PROVE  /\ client'[u].calls = client[u].calls
                      /\ client'[u].waits => client[u].waits
                      /\ \/ client'[u].holds = client[u].holds
                         \/ mine(u) /\ a.opened # NoTrace /\ client'[u].holds = a.opened
    OBVIOUS
  <2>1. client[u] \in [calls : 0..MaxCalls, waits : BOOLEAN, holds : Trace \union {NoTrace}]
    BY DEF TypeOK
  <2>2. CASE mine(u)
    BY <1>2, <2>1, <2>2, ZenonT(40)
  <2>3. CASE ~mine(u)
    BY <1>2, <2>3, ZenonT(40)
  <2> QED BY <2>2, <2>3
<1>4. UNCHANGED <<open, ended, misused, hurried>>
  BY Zenon DEF ClientReceives
<1>5. Accounted'
  <2>1. \A c : Made(c)' <=> Made(c)
    BY <1>3, TraceFacts DEF Made
  <2>2. \A i \in 1 .. Len(out') : out'[i].trace \in ended' \union {NoTrace}
    BY <1>1, <1>4, AccountedIs DEF Rest
  <2> QED BY <1>4, <2>1, <2>2, AccountedIs, AccountedAfter DEF Rest
<1>6. OwnHandles'
  <2>1. \A u \in Thread : client'[u].holds # NoTrace =>
            client'[u].holds[1] = u /\ client'[u].holds \in ended
    <3> SUFFICES ASSUME NEW u \in Thread, client'[u].holds # NoTrace
                 PROVE  client'[u].holds[1] = u /\ client'[u].holds \in ended
      OBVIOUS
    <3>1. CASE client'[u].holds = client[u].holds
      BY <3>1 DEF Rest, OwnHandles
    <3>2. CASE mine(u) /\ a.opened # NoTrace /\ client'[u].holds = a.opened
      <4>1. a.opened[1] = a.trace[1] /\ a.opened \in ended
        BY <1>1, <3>2 DEF Rest, OwnHandles
      <4>2. a.trace[1] = u
        BY <3>2, SMT, SMTT(30)
      <4> QED BY <3>2, <4>1, <4>2
    <3> QED BY <1>3, <3>1, <3>2
  <2>2. \A i \in 1 .. Len(out') : out'[i].opened # NoTrace =>
            /\ out'[i].trace # NoTrace /\ out'[i].opened[1] = out'[i].trace[1]
            /\ out'[i].opened \in ended
    BY <1>1, SMT, SMTT(30) DEF Rest, OwnHandles
  <2> QED BY <1>4, <2>1, <2>2 DEF Rest, OwnHandles
<1>7. FilesLast'
  <2>1. \A h \in Trace : InHaste(h)' <=> InHaste(h)
    BY <1>4 DEF InHaste, MultiWorkers
  <2>2. MultiWorkers' <=> MultiWorkers
    BY DEF MultiWorkers
  <2>3. ASSUME NEW h \in Trace, Has(h)'
        PROVE  Has(h)
    <3>1. h[1] \in Thread /\ h # NoTrace
      BY TraceFacts
    <3>2. CASE client'[h[1]].holds = h
      BY <1>1, <1>3, <3>1, <3>2 DEF Has
    <3>3. CASE client'[h[1]].waits /\ \E i \in 1 .. Len(out') :
                  out'[i].opened = h /\ out'[i].trace = <<h[1], client'[h[1]].calls>>
      <4>1. PICK i \in 1 .. Len(out') :
                out'[i].opened = h /\ out'[i].trace = <<h[1], client'[h[1]].calls>>
        BY <3>3
      <4>2. /\ client[h[1]].waits /\ i + 1 \in 1 .. Len(out) /\ out[i + 1].opened = h
            /\ out[i + 1].trace = <<h[1], client[h[1]].calls>>
        BY <1>1, <1>3, <3>1, <3>3, <4>1
      <4> QED BY <4>2 DEF Has
    <3> QED BY <2>3, <3>2, <3>3 DEF Has
  <2> QED BY <1>4, <2>1, <2>2, <2>3, SMT, SMTT(30) DEF Rest, FilesLast, Gone
<1>8. MisusedOnlyInHaste'
  BY <1>4 DEF Rest, MisusedOnlyInHaste, MultiWorkers
<1> QED BY <1>5, <1>6, <1>7, <1>8 DEF Rest

(* A call is made: what the caller puts into the request. *)
MakesCall(t, r) ==
    /\ r.trace = <<t, client[t].calls + 1>> /\ client[t].calls + 1 \in 1 .. MaxCalls
    /\ inbox' = Append(inbox, r)
    /\ r.handle # NoTrace => r.handle = client[t].holds
    /\ Gone(r) => r.handle # NoTrace
    /\ \A u \in Thread \ {t} : client'[u] = client[u]
    /\ client' \in [Thread -> [calls : 0..MaxCalls, waits : BOOLEAN,
                               holds : Trace \union {NoTrace}]]
    /\ client'[t].calls = client[t].calls + 1
    /\ client'[t].holds = IF Gone(r) THEN NoTrace ELSE client[t].holds
    /\ hurried' = IF Gone(r) /\ \E p \in Pending : p.handle = r.handle
                  THEN hurried \union {r.handle} ELSE hurried

(* What a caller does when it makes a call. *)
LEMMA CallMade ==
    ASSUME NEW t \in Thread, TypeOK, ClientCalls(t)
    PROVE  \E r \in Request : MakesCall(t, r)
<1> DEFINE n == client[t].calls + 1
           gone(name) == FileUse(name) \in {"closes", "reopens"}
           onFile(name) == FileUse(name) \in {"uses", "closes", "reopens"}
           H(name) == IF onFile(name) THEN client[t].holds ELSE NoTrace
           R(name) == [trace |-> <<t, n>>, name |-> name, handle |-> H(name)]
<1>1. PICK name \in Names :
        /\ onFile(name) => H(name) # NoTrace
        /\ client' = [client EXCEPT ![t] = [calls |-> n, waits |-> Answered(name),
                          holds |-> IF gone(name) THEN NoTrace ELSE @.holds]]
        /\ inbox' = Append(inbox, R(name))
        /\ hurried' = IF gone(name) /\ \E p \in Pending : p.handle = H(name)
                      THEN hurried \union {H(name)} ELSE hurried
  BY Zenon DEF ClientCalls
<1>2. client[t] \in [calls : 0..MaxCalls, waits : BOOLEAN, holds : Trace \union {NoTrace}]
  BY DEF TypeOK
<1>3. n \in 1 .. MaxCalls
  BY <1>2, RpcAssumption, SMT, SMTT(30) DEF ClientCalls
<1>4. H(name) \in Trace \union {NoTrace}
  BY <1>2
<1>5. R(name) \in Request
  BY <1>3, <1>4, TraceFacts, RequestFacts
<1>6. Answered(name) \in BOOLEAN
  BY DEF Answered
<1>7. /\ client'[t] = [calls |-> n, waits |-> Answered(name),
                       holds |-> IF gone(name) THEN NoTrace ELSE client[t].holds]
      /\ \A u \in Thread \ {t} : client'[u] = client[u]
  BY <1>1 DEF TypeOK
<1>8. client' \in [Thread -> [calls : 0..MaxCalls, waits : BOOLEAN,
                              holds : Trace \union {NoTrace}]]
  <2>1. client'[t] \in [calls : 0..MaxCalls, waits : BOOLEAN, holds : Trace \union {NoTrace}]
    BY <1>2, <1>3, <1>6, <1>7, RpcAssumption, SMT, SMTT(30)
  <2> QED BY <1>1, <1>7, <2>1 DEF TypeOK
<1>10. (Gone(R(name)) <=> gone(name)) /\ (gone(name) => onFile(name))
  BY DEF Gone
<1>11. /\ R(name).trace = <<t, n>> /\ R(name).handle = H(name)
       /\ H(name) # NoTrace => H(name) = client[t].holds
  OBVIOUS
<1>12. /\ client'[t].calls = n
       /\ client'[t].holds = IF Gone(R(name)) THEN NoTrace ELSE client[t].holds
  BY <1>7, <1>10, SMT, SMTT(30)
<1>13. hurried' = IF Gone(R(name)) /\ \E p \in Pending : p.handle = R(name).handle
                  THEN hurried \union {R(name).handle} ELSE hurried
  BY <1>1, <1>10, <1>11
<1>14. Gone(R(name)) => R(name).handle # NoTrace
  BY <1>1, <1>10, <1>11
<1>15. inbox' = Append(inbox, R(name))
  BY <1>1
<1> HIDE DEF R, H
<1>16. MakesCall(t, R(name))
  BY <1>3, <1>7, <1>8, <1>11, <1>12, <1>13, <1>14, <1>15 DEF MakesCall
<1> QED BY <1>5, <1>16

(* The call is accounted for, and the FILE it names was opened for it or in haste. *)
LEMMA Called ==
    ASSUME NEW t \in Thread, NEW r \in Request, TypeOK, Placed, InLine, Rest, MakesCall(t, r),
           Pending' = Pending \union {r}, Executor' = Executor,
           UNCHANGED <<out, open, ended, misused>>
    PROVE  Rest'
<1> DEFINE n == client[t].calls + 1
<1>1. \A u \in Thread : client[u].calls \in 0 .. MaxCalls
  BY DEF TypeOK
<1>2. \A p \in Pending : p \in Request /\ Made(p.trace)
  BY PendingType, AccountedIs DEF Rest
<1>3. \A c \in ended : Made(c)
  BY AccountedIs DEF Rest
<1>4. ~Made(r.trace) /\ r.trace \in Trace /\ r.trace[1] = t /\ r.trace[2] = n
  <2>1. r.trace \in Trace /\ r.trace[1] = t /\ r.trace[2] = n
    BY RequestFacts, SMT, SMTT(30) DEF MakesCall
  <2>2. ~(n <= client[t].calls)
    BY <1>1, SMT, SMTT(30)
  <2> QED BY <2>1, <2>2 DEF Made
<1>5. \A c : Made(c)' <=> Made(c) \/ c = r.trace
  <2> SUFFICES ASSUME NEW c \in Trace
               PROVE  Made(c)' <=> Made(c) \/ c = r.trace
    BY <1>4 DEF Made
  <2>1. c[1] \in Thread /\ c[2] \in 1 .. MaxCalls /\ c = <<c[1], c[2]>>
    BY TraceFacts
  <2>2. CASE c[1] # t
    BY <1>4, <2>1, <2>2 DEF Made, MakesCall
  <2>3. CASE c[1] = t
    <3>1. Made(c)' <=> c[2] <= n
      BY <2>3 DEF Made, MakesCall
    <3>2. Made(c) <=> c[2] <= client[t].calls
      BY <2>3 DEF Made
    <3>3. c = r.trace <=> c[2] = n
      BY <1>4, <2>1, <2>3, TraceFacts
    <3> QED BY <1>1, <2>1, <3>1, <3>2, <3>3, SMT, SMTT(30)
  <2> QED BY <2>2, <2>3
<1>6. Accounted'
  <2>1. \A c : (\E p \in Pending' : p.trace = c) \/ c \in ended' <=> Made(c)'
    <3>1. \A c : (\E p \in Pending : p.trace = c) \/ c \in ended <=> Made(c)
      BY AccountedIs DEF Rest
    <3>2. \A c : (\E p \in Pending' : p.trace = c) <=> (\E p \in Pending : p.trace = c) \/ c = r.trace
      OBVIOUS
    <3> QED BY <1>5, <3>1, <3>2
  <2>2. \A p \in Pending' : p.trace \notin ended'
    BY <1>3, <1>4, AccountedIs DEF Rest
  <2>3. \A i \in 1 .. Len(out') : out'[i].trace \in ended' \union {NoTrace}
    BY AccountedIs DEF Rest
  <2> QED BY <2>1, <2>2, <2>3, AccountedAfter
<1>7. r.handle # NoTrace => r.handle = client[t].holds /\ r.handle[1] = t /\ r.handle \in ended
  BY DEF Rest, OwnHandles, MakesCall
<1>8. OwnHandles'
  <2>1. \A p \in Pending' : p.handle # NoTrace => p.handle[1] = p.trace[1] /\ p.handle \in ended
    BY <1>4, <1>7 DEF Rest, OwnHandles
  <2>2. \A u \in Thread : client'[u].holds # NoTrace =>
            client'[u].holds[1] = u /\ client'[u].holds \in ended
    BY SMT, SMTT(30) DEF Rest, OwnHandles, MakesCall
  <2>3. hurried' \subseteq ended
    BY <1>7 DEF Rest, OwnHandles, MakesCall
  <2> QED BY <2>1, <2>2, <2>3 DEF Rest, OwnHandles
<1>9. ASSUME NEW h \in Trace, ~InHaste(h)'
      PROVE  ~InHaste(h) /\ (Gone(r) /\ r.handle = h /\ (\E p \in Pending : p.handle = h) => ~MultiWorkers)
  BY <1>9 DEF InHaste, MakesCall, MultiWorkers
<1>10. ASSUME NEW h \in Trace, r.handle = h
       PROVE  Has(h) /\ h[1] = t
  BY <1>7, <1>10, TraceFacts DEF Has
<1>11. ASSUME NEW h \in Trace, Has(h)'
       PROVE  Has(h) /\ (r.handle = h => ~Gone(r))
  <2>1. h[1] \in Thread /\ h # NoTrace
    BY TraceFacts
  <2>2. CASE h[1] # t
    <3>1. Has(h)
      BY <1>11, <2>1, <2>2 DEF Has, MakesCall
    <3> QED BY <2>2, <3>1, <1>10
  <2>3. CASE h[1] = t
    <3>1. \A i \in 1 .. Len(out) : out[i].trace # <<t, n>>
      <4>1. r.trace = <<t, n>> /\ r.trace # NoTrace /\ r.trace \notin ended
        BY <1>3, <1>4, RequestFacts, Zenon DEF MakesCall
      <4> QED BY <4>1, AccountedIs DEF Rest
    <3>2. client'[t].holds = h
      BY <1>11, <2>3, <3>1 DEF Has, MakesCall
    <3>3. ~Gone(r) /\ client[t].holds = h
      BY <2>1, <3>2 DEF MakesCall
    <3> QED BY <2>3, <3>3 DEF Has
  <2> QED BY <2>2, <2>3
<1>12. FilesLast'
  <2> SUFFICES ASSUME NEW h \in Trace, ~InHaste(h)'
               PROVE  /\ \A p \in Pending' : p.handle = h => h \in open'
                      /\ \A p1, p2 \in Pending' :
                             p1.handle = h /\ p2.handle = h /\ Gone(p1)' /\ p1.trace # p2.trace =>
                                 ~MultiWorkers' /\ p2.trace[2] < p1.trace[2]
                      /\ Has(h)' => h \in open' /\ \A p \in Pending' : p.handle = h => ~Gone(p)'
    BY DEF FilesLast
  <2>1. ~InHaste(h)
    BY <1>9
  <2>2. /\ \A p \in Pending : p.handle = h => h \in open
        /\ \A p1, p2 \in Pending :
               p1.handle = h /\ p2.handle = h /\ Gone(p1) /\ p1.trace # p2.trace =>
                   ~MultiWorkers /\ p2.trace[2] < p1.trace[2]
        /\ Has(h) => h \in open /\ \A p \in Pending : p.handle = h => ~Gone(p)
    BY <2>1 DEF Rest, FilesLast
  <2>3. (MultiWorkers' <=> MultiWorkers) /\ \A p : Gone(p)' <=> Gone(p)
    BY DEF MultiWorkers, Gone
  <2>4. \A p \in Pending' : p.handle = h => h \in open'
    BY <2>2, <1>10
  <2>5. ASSUME NEW p1 \in Pending', NEW p2 \in Pending', p1.handle = h, p2.handle = h,
               Gone(p1), p1.trace # p2.trace
        PROVE  ~MultiWorkers /\ p2.trace[2] < p1.trace[2]
    <3>1. CASE p1 \in Pending /\ p2 \in Pending
      BY <2>2, <2>5, <3>1
    <3>2. CASE p1 \in Pending /\ p2 = r
      BY <1>10, <2>2, <2>5, <3>2
    <3>3. CASE p1 = r /\ p2 \in Pending
      <4>1. ~MultiWorkers
        BY <1>9, <2>5, <3>3
      <4>2. p2.trace[1] = t
        <5>1. h # NoTrace /\ h[1] = t
          BY <1>10, <2>5, <3>3, TraceFacts
        <5>2. h[1] = p2.trace[1]
          BY <2>5, <3>3, <5>1 DEF Rest, OwnHandles
        <5> QED BY <5>1, <5>2
      <4>3. p2.trace[2] <= client[t].calls /\ p2.trace[2] \in 1 .. MaxCalls
        BY <1>2, <3>3, <4>2, TraceFacts DEF Made
      <4> QED BY <1>1, <1>4, <3>3, <4>1, <4>3, SMT, SMTT(30)
    <3>4. CASE p1 = r /\ p2 = r
      BY <2>5, <3>4
    <3> QED BY <3>1, <3>2, <3>3, <3>4
  <2>6. Has(h)' => h \in open' /\ \A p \in Pending' : p.handle = h => ~Gone(p)
    BY <1>11, <2>2
  <2> QED BY <2>3, <2>4, <2>5, <2>6
<1>13. MisusedOnlyInHaste'
  BY DEF Rest, MisusedOnlyInHaste, MultiWorkers, MakesCall
<1> QED BY <1>6, <1>8, <1>12, <1>13 DEF Rest

(* A handler returns: what it leaves open, and the answer it may send. *)
Returns(r, a) ==
    /\ out' = out \/ out' = Append(out, a)
    /\ a \in Answer /\ a.trace = r.trace
    /\ \/ open' = open /\ a.opened = NoTrace
       \/ open' = open \union {r.trace} /\ a.opened = r.trace
       \/ Gone(r) /\ open' = open \ {r.handle} /\ a.opened = NoTrace
       \/ Gone(r) /\ open' = open /\ a.opened = r.handle
    /\ misused' = misused \/ (/\ r.handle # NoTrace /\ r.handle \notin open
                              /\ misused' = misused \union {r.handle})
    /\ ended' = ended \union {r.trace}

(* What a handler does when it returns. *)
LEMMA HandlerReturns ==
    ASSUME NEW e \in Executor, TypeOK, Placed, Handle(e)
    PROVE  exec[e].req \in Request /\ \E a : Returns(exec[e].req, a)
<1> DEFINE r == exec[e].req
           h == Handler(exec[e].service)
           A(opened) == [id |-> h.reply, trace |-> r.trace, opened |-> opened]
<1>1. e \in InHand
  BY DEF Handle, InHand
<1>2. r \in Request /\ exec[e].service = Found[r.name] /\ exec[e].service # None
  BY <1>1 DEF Placed
<1>3. r.trace \in Trace /\ r.name \in Names /\ r.handle \in Trace \union {NoTrace}
  BY <1>2, RequestFacts
<1>4. h \in Handlers /\ h.file = FileUse(r.name)
  BY <1>2, <1>3, FoundIs, HandlerIs
<1>5. \A o \in Trace \union {NoTrace} :
        A(o) \in Answer /\ A(o).trace = r.trace /\ A(o).opened = o
  BY <1>3, <1>4, AnswerFacts
<1>6. /\ \/ h.rejects /\ UNCHANGED <<open, misused, out>>
         \/ \E works \in BOOLEAN :
                 /\ open' = FileEffect(h.file, r, works)
                 /\ misused' = IF r.handle = NoTrace \/ r.handle \in open
                               THEN misused ELSE misused \union {r.handle}
                 /\ IF h.reply = None THEN UNCHANGED out
                    ELSE rpc_server_send(h.reply, r.trace, Opened(h.file, r, works))
      /\ ended' = ended \union {r.trace}
  BY DEF Handle
<1> HIDE DEF r, h, A
<1>7. CASE UNCHANGED <<open, misused, out>>
  <2>1. Returns(r, A(NoTrace))
    BY <1>5, <1>6, <1>7 DEF Returns
  <2> QED BY <1>2, <2>1 DEF r
<1>8. ASSUME NEW works \in BOOLEAN,
             open' = FileEffect(h.file, r, works),
             misused' = IF r.handle = NoTrace \/ r.handle \in open
                        THEN misused ELSE misused \union {r.handle},
             IF h.reply = None THEN UNCHANGED out
             ELSE rpc_server_send(h.reply, r.trace, Opened(h.file, r, works))
      PROVE  \E a : Returns(r, a)
  <2> DEFINE o == Opened(h.file, r, works)
  <2>1. /\ o \in Trace \union {NoTrace}
        /\ \/ open' = open /\ o = NoTrace
           \/ open' = open \union {r.trace} /\ o = r.trace
           \/ Gone(r) /\ open' = open \ {r.handle} /\ o = NoTrace
           \/ Gone(r) /\ open' = open /\ o = r.handle
    <3>1. CASE h.file = "opens"
      BY <1>3, <1>8, <3>1 DEF FileEffect, Opened
    <3>2. CASE h.file = "closes"
      BY <1>3, <1>4, <1>8, <3>2 DEF FileEffect, Opened, Gone
    <3>3. CASE h.file = "reopens"
      BY <1>3, <1>4, <1>8, <3>3 DEF FileEffect, Opened, Gone
    <3>4. CASE h.file \notin {"opens", "closes", "reopens"}
      BY <1>3, <1>8, <3>4 DEF FileEffect, Opened
    <3> QED BY <3>1, <3>2, <3>3, <3>4
  <2>2. out' = out \/ out' = Append(out, A(o))
    BY <1>8 DEF rpc_server_send, A
  <2> HIDE DEF o
  <2>3. A(o) \in Answer /\ A(o).trace = r.trace /\ A(o).opened = o
    BY <1>5, <2>1
  <2>4. misused' = misused \/ (/\ r.handle # NoTrace /\ r.handle \notin open
                               /\ misused' = misused \union {r.handle})
    BY <1>8
  <2>5. Returns(r, A(o))
    BY <1>6, <2>1, <2>2, <2>3, <2>4 DEF Returns
  <2> QED BY <2>5
<1> QED BY <1>2, <1>6, <1>7, <1>8 DEF r

(* The one that closes a FILE is the last on it. *)
LEMMA LastOnFile ==
    ASSUME NEW e \in InHand, NEW h \in Trace, NEW p \in Pending, TypeOK, Placed, InLine, Rest,
           ~InHaste(h), exec[e].req.handle = h, p.handle = h, Gone(exec[e].req)
    PROVE  p = exec[e].req
<1> DEFINE r == exec[e].req
<1>1. r \in Pending /\ r \in Request /\ p \in Request
  BY PendingIs, PendingType
<1> SUFFICES ASSUME p.trace # r.trace
             PROVE  FALSE
  BY <1>1, OneTrace
<1>2. ~MultiWorkers /\ p.trace[2] < r.trace[2]
  BY <1>1 DEF Rest, FilesLast
<1>3. Executor = {"notifier"} /\ \A i \in 1 .. Len(Queued) : FALSE
  BY <1>2, NoLine
<1>4. \A f \in InHand : f = e
  BY <1>3 DEF InHand
<1>5. PICK i \in 1 .. Len(inbox) : p = inbox[i]
  BY <1>3, <1>4, PendingIs
<1>6. Older(r, p)
  BY <1>5 DEF InLine
<1>7. h # NoTrace
  BY TraceFacts
<1>8. r.trace[1] = p.trace[1]
  BY <1>1, <1>7, SMT, SMTT(30) DEF Rest, OwnHandles
<1>9. r.trace[2] \in 1 .. MaxCalls /\ p.trace[2] \in 1 .. MaxCalls
  BY <1>1, RequestFacts, TraceFacts
<1>10. r.trace[2] < p.trace[2]
  BY <1>6, <1>8 DEF Older
<1> HIDE DEF r
<1> QED BY <1>2, <1>9, <1>10, RpcAssumption, SMT, SMTT(30)

(* Its call has ended, and a FILE it closed has no other use pending. *)
LEMMA Handled ==
    ASSUME NEW e \in InHand, NEW a, TypeOK, Placed, InLine, Rest, Returns(exec[e].req, a),
           Pending' = Pending \ {exec[e].req}, Executor' = Executor,
           UNCHANGED <<client, hurried>>
    PROVE  Rest'
<1> DEFINE r == exec[e].req
<1>1. /\ Len(out) \in Nat
      /\ \A i \in 1 .. Len(out') : (i \in 1 .. Len(out) /\ out'[i] = out[i]) \/ out'[i] = a
  BY Answers DEF Returns
<1>2. /\ r \in Pending /\ r \in Request
      /\ \A p \in Pending : p \in Request /\ (p.trace = r.trace => p = r)
  BY PendingIs, PendingType, OneTrace
<1>3. /\ a \in Answer /\ a.trace = r.trace /\ ended' = ended \union {r.trace}
      /\ \/ open' = open /\ a.opened = NoTrace
         \/ open' = open \union {r.trace} /\ a.opened = r.trace
         \/ Gone(r) /\ open' = open \ {r.handle} /\ a.opened = NoTrace
         \/ Gone(r) /\ open' = open /\ a.opened = r.handle
      /\ misused' = misused \/ (/\ r.handle # NoTrace /\ r.handle \notin open
                                /\ misused' = misused \union {r.handle})
  BY DEF Returns
<1>4. \A h \in Trace, p \in Pending' :
        ~InHaste(h) /\ r.handle = h /\ Gone(r) => p.handle # h
  BY LastOnFile
<1>5. /\ r.trace \notin ended /\ r.trace \in Trace /\ r.trace # NoTrace
      /\ r.handle \in Trace \union {NoTrace}
  BY <1>2, AccountedIs, RequestFacts DEF Rest
<1> HIDE DEF r
<1>6. Accounted'
  <2>1. \A c : (\E p \in Pending : p.trace = c) \/ c \in ended <=> Made(c)
    BY AccountedIs DEF Rest
  <2>2. \A c : Made(c)' <=> Made(c)
    BY DEF Made
  <2>3. Pending' = Pending \ {r}
    BY DEF r
  <2>4. \A c : (\E p \in Pending' : p.trace = c) \/ c \in ended'
                   <=> (\E p \in Pending : p.trace = c) \/ c \in ended
    BY <1>2, <1>3, <2>3
  <2>5. \A p \in Pending' : p.trace \notin ended'
    BY <1>2, <1>3, <2>3, AccountedIs DEF Rest
  <2>6. \A i \in 1 .. Len(out') : out'[i].trace \in ended' \union {NoTrace}
    BY <1>1, <1>3, AccountedIs DEF Rest
  <2> QED BY <2>1, <2>2, <2>4, <2>5, <2>6, AccountedAfter
<1>7. OwnHandles'
  <2>1. r.handle # NoTrace => r.handle[1] = r.trace[1] /\ r.handle \in ended
    BY <1>2 DEF Rest, OwnHandles
  <2>2. a.opened # NoTrace => /\ a.trace # NoTrace /\ a.opened[1] = a.trace[1]
                              /\ a.opened \in ended'
    BY <1>3, <1>5, <2>1
  <2>3. \A i \in 1 .. Len(out') : out'[i].opened # NoTrace =>
            /\ out'[i].trace # NoTrace /\ out'[i].opened[1] = out'[i].trace[1]
            /\ out'[i].opened \in ended'
    BY <1>1, <1>3, <2>2 DEF Rest, OwnHandles
  <2>4. open' \subseteq ended' /\ hurried' \subseteq ended'
    BY <1>3 DEF Rest, OwnHandles
  <2> QED BY <1>3, <2>3, <2>4 DEF Rest, OwnHandles
<1>8. ASSUME NEW h \in Trace, Has(h)'
      PROVE  Has(h) \/ a.opened = h
  BY <1>1, <1>8 DEF Has
<1>9. FilesLast'
  <2> SUFFICES ASSUME NEW h \in Trace, ~InHaste(h)'
               PROVE  /\ \A p \in Pending' : p.handle = h => h \in open'
                      /\ \A p1, p2 \in Pending' :
                             p1.handle = h /\ p2.handle = h /\ Gone(p1)' /\ p1.trace # p2.trace =>
                                 ~MultiWorkers' /\ p2.trace[2] < p1.trace[2]
                      /\ Has(h)' => h \in open' /\ \A p \in Pending' : p.handle = h => ~Gone(p)'
    BY DEF FilesLast
  <2>1. ~InHaste(h) /\ h # NoTrace
    BY TraceFacts DEF InHaste, MultiWorkers
  <2>2. /\ \A p \in Pending : p.handle = h => h \in open
        /\ \A p1, p2 \in Pending :
               p1.handle = h /\ p2.handle = h /\ Gone(p1) /\ p1.trace # p2.trace =>
                   ~MultiWorkers /\ p2.trace[2] < p1.trace[2]
        /\ Has(h) => h \in open /\ \A p \in Pending : p.handle = h => ~Gone(p)
    BY <2>1 DEF Rest, FilesLast
  <2>3. (MultiWorkers' <=> MultiWorkers) /\ \A p : Gone(p)' <=> Gone(p)
    BY DEF MultiWorkers, Gone
  <2>4. \A p \in Pending' : p \in Pending
    OBVIOUS
  <2>5. \A p \in Pending' : p.handle = h => h \in open'
    BY <1>3, <1>4, <2>1, <2>2, <2>4
  <2>6. \A p1, p2 \in Pending' :
            p1.handle = h /\ p2.handle = h /\ Gone(p1) /\ p1.trace # p2.trace =>
                ~MultiWorkers /\ p2.trace[2] < p1.trace[2]
    BY <2>2, <2>4
  <2>7. ASSUME Has(h)'
        PROVE  h \in open' /\ \A p \in Pending' : p.handle = h => ~Gone(p)
    <3>1. CASE a.opened = h
      <4>1. CASE open' = open \union {r.trace} /\ a.opened = r.trace
        <5>1. \A p \in Pending : p.handle # h
          BY <1>5, <2>1, <3>1, <4>1 DEF Rest, OwnHandles
        <5> QED BY <2>4, <3>1, <4>1, <5>1
      <4>2. CASE Gone(r) /\ open' = open /\ a.opened = r.handle
        <5>1. \A p \in Pending' : p.handle # h
          BY <1>4, <2>1, <3>1, <4>2
        <5>2. h \in open
          BY <1>2, <2>2, <3>1, <4>2
        <5> QED BY <4>2, <5>1, <5>2
      <4> QED BY <1>3, <2>1, <3>1, <4>1, <4>2
    <3>2. CASE Has(h)
      <4>1. h \in open /\ \A p \in Pending : p.handle = h => ~Gone(p)
        BY <2>2, <3>2
      <4>2. h \in open'
        BY <1>2, <1>3, <4>1
      <4> QED BY <2>4, <4>1, <4>2
    <3> QED BY <1>8, <2>7, <3>1, <3>2
  <2> QED BY <2>3, <2>5, <2>6, <2>7
<1>10. MisusedOnlyInHaste'
  <2>1. misused \subseteq IF MultiWorkers THEN hurried ELSE {}
    BY DEF Rest, MisusedOnlyInHaste
  <2>2. r.handle # NoTrace /\ r.handle \notin open => InHaste(r.handle)
    BY <1>2, <1>5 DEF Rest, FilesLast
  <2>3. (MultiWorkers' <=> MultiWorkers) /\ hurried' = hurried
    BY DEF MultiWorkers
  <2> QED BY <1>3, <2>1, <2>2, <2>3 DEF MisusedOnlyInHaste, InHaste
<1> QED BY <1>6, <1>7, <1>9, <1>10 DEF Rest

(***************************************************************************)
(* The inductive invariant.                                                *)
(***************************************************************************)
Doing == [pc : {"ready", "sleep", "run", "stuck"}, req : Request \union {NoRequest},
          service : Known \union {None}]

(* The types of an executor. *)
LEMMA ExecType ==
    ASSUME NEW e \in Executor, NEW x \in Doing, TypeOK, exec' = [exec EXCEPT ![e] = x]
    PROVE  Executor' = Executor /\ exec' \in [Executor -> Doing]
BY DEF Executor, TypeOK, Doing

(* An executor is idle, or carries out a request by the handler that was found. *)
LEMMA DoingIs ==
    /\ Ready \in Doing /\ Asleep \in Doing /\ Ready.pc \notin Busy /\ Asleep.pc \notin Busy
    /\ \A r \in Request : [pc |-> "run", req |-> r, service |-> Found[r.name]] \in Doing
<1>1. Ready \in Doing /\ Asleep \in Doing /\ Ready.pc \notin Busy /\ Asleep.pc \notin Busy
  BY DEF Ready, Asleep, Doing, Busy
<1>2. ASSUME NEW r \in Request
      PROVE  [pc |-> "run", req |-> r, service |-> Found[r.name]] \in Doing
  <2>1. Found[r.name] \in Known \union {None}
    BY RequestFacts, FoundIs
  <2> QED BY <2>1 DEF Doing
<1> QED BY <1>1, <1>2

(* At first no call was made. *)
LEMMA InitRpc == Init => RpcInv
<1> SUFFICES ASSUME Init
             PROVE  RpcInv
  OBVIOUS
<1> USE RpcAssumption
<1>0. PICK threads \in {Worker, {"notifier"}} : exec = [e \in threads |-> Ready]
  BY DEF Init
<1>1. TypeOK
  <2>1. Executor = threads /\ exec \in [Executor -> Doing]
    BY <1>0, DoingIs DEF Executor
  <2>2. client \in [Thread -> [calls : 0..MaxCalls, waits : BOOLEAN,
                               holds : Trace \union {NoTrace}]]
    BY SMT, SMTT(30) DEF Init
  <2>3. inbox \in Seq(Request) /\ out \in Seq(Answer)
    BY SMT, SMTT(30) DEF Init
  <2>4. /\ q \in [0..(QueueSize - 1) -> Request \union {NoRequest}]
        /\ head \in 0..(QueueSize - 1) /\ tail \in 0..(QueueSize - 1)
    BY SMT, SMTT(30) DEF Init
  <2>5. open = {} /\ ended = {} /\ misused = {} /\ hurried = {}
    BY DEF Init
  <2> QED BY <2>1, <2>2, <2>3, <2>4, <2>5 DEF TypeOK, Doing
<1>2. InHand = {}
  BY <1>0 DEF InHand, Executor, Ready
<1>3. Len(Queued) = 0 /\ Len(inbox) = 0 /\ Len(out) = 0
  BY <1>1, QueuedIs, SMT, SMTT(30) DEF Count, Init
<1>4. Pending = {}
  BY <1>2, <1>3, PendingIs, SMT, SMTT(30)
<1>5. Placed
  BY <1>2, <1>3, SMT, SMTT(30) DEF Placed, Init
<1>6. InLine
  BY <1>2, <1>3, SMT, SMTT(30) DEF InLine
<1>7. Accounted
  <2>1. \A c : ~Made(c)
    BY TraceFacts, SMT, SMTT(30) DEF Made, Init
  <2> QED BY <1>3, <1>4, <2>1, AccountedIs, SMT, SMTT(30) DEF Init
<1>8. OwnHandles
  BY <1>3, <1>4, SMT, SMTT(30) DEF OwnHandles, Init
<1>9. FilesLast
  <2>1. \A h \in Trace : ~Has(h)
    BY <1>3, TraceFacts DEF Has, Init
  <2> QED BY <1>4, <2>1 DEF FilesLast
<1>10. MisusedOnlyInHaste
  BY DEF MisusedOnlyInHaste, Init
<1> QED BY <1>1, <1>5, <1>6, <1>7, <1>8, <1>9, <1>10 DEF RpcInv

(* A caller makes a call. *)
LEMMA CallsKeeps ==
    ASSUME NEW t \in Thread, RpcInv, ClientCalls(t)
    PROVE  RpcInv'
<1>1. TypeOK /\ Placed /\ InLine /\ Rest
  BY DEF RpcInv, Rest
<1>2. PICK r \in Request : MakesCall(t, r)
  BY <1>1, CallMade
<1>3. UNCHANGED <<out, ring, exec, open, ended, misused>>
  BY DEF ClientCalls
<1>4. \A p \in Pending : Older(p, r)
  <2> SUFFICES ASSUME NEW p \in Pending, p.trace[1] = r.trace[1]
               PROVE  p.trace[2] < r.trace[2]
    BY DEF Older
  <2>1. p \in Request /\ Made(p.trace)
    BY <1>1, PendingType, AccountedIs DEF Rest
  <2>2. r.trace[1] = t /\ r.trace[2] = client[t].calls + 1
    BY <1>2, SMT, SMTT(30) DEF MakesCall
  <2>3. p.trace[2] <= client[t].calls /\ p.trace[2] \in 1 .. MaxCalls
    BY <2>1, <2>2, TraceFacts DEF Made
  <2>4. client[t].calls \in 0 .. MaxCalls
    BY <1>1 DEF TypeOK
  <2> QED BY <2>2, <2>3, <2>4, SMT, SMTT(30)
<1>5. Placed' /\ InLine' /\ Pending' = Pending \union {r}
  BY <1>1, <1>2, <1>3, <1>4, LineGrows DEF MakesCall
<1>6. Executor' = Executor
  BY <1>3 DEF Executor
<1>7. Rest'
  BY <1>1, <1>2, <1>3, <1>5, <1>6, Called
<1>8. TypeOK'
  <2>1. inbox' \in Seq(Request)
    BY <1>1, <1>2, SMT, SMTT(30) DEF TypeOK, MakesCall
  <2>2. hurried' \subseteq Trace
    BY <1>1, <1>2, RequestFacts DEF TypeOK, MakesCall
  <2>3. client' \in [Thread -> [calls : 0..MaxCalls, waits : BOOLEAN,
                                holds : Trace \union {NoTrace}]]
    BY <1>2 DEF MakesCall
  <2> QED BY <1>1, <1>3, <1>6, <2>1, <2>2, <2>3 DEF TypeOK, ring
<1> QED BY <1>5, <1>7, <1>8 DEF RpcInv, Rest

(* A caller takes an answer or gives up. *)
LEMMA ClientKeeps ==
    ASSUME RpcInv, ClientReceives \/ \E t \in Thread : ClientTimesOut(t)
    PROVE  RpcInv'
<1>1. TypeOK /\ Placed /\ InLine /\ Rest
  BY DEF RpcInv, Rest
<1>2. UNCHANGED <<inbox, ring, exec, open, ended, misused, hurried>>
  BY Zenon DEF ClientReceives, ClientTimesOut
<1>3. SameHands
  BY <1>2 DEF SameHands, InHand, Executor
<1>4. Placed' /\ InLine' /\ Pending' = Pending /\ Executor' = Executor
  BY <1>1, <1>2, <1>3, LineStays DEF SameHands
<1>5. CASE ClientReceives
  <2>1. Rest'
    BY <1>1, <1>4, <1>5, Received
  <2>2. out' \in Seq(Answer) /\ Head(out) \in Answer
    <3>1. out \in Seq(Answer) /\ out # <<>> /\ out' = Tail(out)
      BY <1>1, <1>5, Zenon DEF TypeOK, ClientReceives
    <3> QED BY <3>1, SMT, SMTT(30)
  <2>3. client' \in [Thread -> [calls : 0..MaxCalls, waits : BOOLEAN,
                                holds : Trace \union {NoTrace}]]
    <3>1. Head(out).opened \in Trace \union {NoTrace}
      BY <2>2, AnswerFacts
    <3> DEFINE o == Head(out).opened
               C(t) == IF client[t].waits /\ Head(out).trace = <<t, client[t].calls>>
                       THEN [client[t] EXCEPT !.waits = FALSE,
                                !.holds = IF o # NoTrace THEN o ELSE @]
                       ELSE client[t]
    <3>2. client' = [t \in Thread |-> C(t)]
      BY <1>5, Zenon DEF ClientReceives
    <3> HIDE DEF o
    <3>3. \A t \in Thread : C(t) \in [calls : 0..MaxCalls, waits : BOOLEAN,
                                      holds : Trace \union {NoTrace}]
      BY <1>1, <3>1, ZenonT(40) DEF TypeOK, o
    <3> HIDE DEF C
    <3> QED BY <3>2, <3>3
  <2>4. TypeOK'
    BY <1>1, <1>2, <1>4, <2>2, <2>3 DEF TypeOK, ring
  <2> QED BY <1>4, <2>1, <2>4 DEF RpcInv, Rest
<1>6. ASSUME NEW t \in Thread, ClientTimesOut(t)
      PROVE  RpcInv'
  <2>1. client' = [client EXCEPT ![t].waits = FALSE] /\ out' = out
    BY <1>6 DEF ClientTimesOut
  <2>2. Rest'
    BY <1>1, <1>2, <1>4, <2>1, TimedOut, Zenon
  <2>3. TypeOK'
    BY <1>1, <1>2, <1>4, <2>1, ZenonT(40) DEF TypeOK, ring
  <2> QED BY <1>4, <2>2, <2>3 DEF RpcInv, Rest
<1> QED BY <1>5, <1>6

(* A signal wakes a worker that waits, and changes nothing else. *)
LEMMA SignalWakes ==
    ASSUME TypeOK, signal
    PROVE  SameHands /\ exec' \in [Executor -> Doing]
<1>1. CASE UNCHANGED exec
  BY <1>1 DEF SameHands, InHand, Executor, TypeOK, Doing
<1>2. ASSUME NEW w \in Executor, exec[w] = Asleep, exec' = [exec EXCEPT ![w] = Ready]
      PROVE  SameHands /\ exec' \in [Executor -> Doing]
  <2>1. exec[w].pc \notin Busy
    BY <1>2, DoingIs
  <2>2. SameHands
    BY <1>2, <2>1, DoingIs, HandsKept, Zenon
  <2> QED BY <1>2, <2>2, DoingIs, ExecType, Zenon
<1> QED BY <1>1, <1>2 DEF signal

(* The endpoint callback takes a request from the channel. *)
LEMMA CallbackKeeps ==
    ASSUME RpcInv, rpmsg_rpc_server_cb
    PROVE  RpcInv'
<1> DEFINE r == Head(inbox)
<1>1. TypeOK /\ Placed /\ InLine /\ Rest
  BY DEF RpcInv, Rest
<1>2. /\ inbox # <<>> /\ inbox' = Tail(inbox) /\ UNCHANGED <<client, open, misused, hurried>>
      /\ ~MultiWorkers => exec["notifier"].pc = "ready"
  BY DEF rpmsg_rpc_server_cb
<1>3. r \in Request /\ inbox' \in Seq(Request)
  BY <1>1, <1>2, InboxTail
<1>4. ASSUME UNCHANGED <<ring, exec>>, ended' = ended \union {r.trace},
             NEW a \in Answer, a.trace = NoTrace, a.opened = NoTrace,
             out' = out \/ out' = Append(out, a)
      PROVE  RpcInv'
  <2>1. Placed' /\ InLine' /\ r \in Pending /\ Pending' = Pending \ {r}
    BY <1>1, <1>2, <1>4, LineDrops
  <2>2. Executor' = Executor
    BY <1>4 DEF Executor
  <2>3. Rest'
    BY <1>1, <1>2, <1>4, <2>1, <2>2, Dropped
  <2>4. out' \in Seq(Answer)
    <3>1. out \in Seq(Answer)
      BY <1>1 DEF TypeOK
    <3> QED BY <1>4, <3>1, SMT, SMTT(30)
  <2>5. ended' \subseteq Trace
    BY <1>1, <1>3, <1>4, RequestFacts DEF TypeOK
  <2>6. TypeOK'
    BY <1>1, <1>2, <1>3, <1>4, <2>2, <2>4, <2>5 DEF TypeOK, ring
  <2> QED BY <2>1, <2>3, <2>6 DEF RpcInv, Rest
<1>5. PICK a0 : a0 \in Answer /\ a0.trace = NoTrace /\ a0.opened = NoTrace
                /\ a0 = [id |-> IdOf(r.name), trace |-> NoTrace, opened |-> NoTrace]
  <2>1. IdOf(r.name) \in Names \union {h.id : h \in Handlers}
    BY <1>3, RequestFacts, HandlerIs DEF IdOf
  <2> QED BY <2>1, AnswerFacts, Zenon
<1>6. CASE Refuse(r)
  <2>1. /\ UNCHANGED <<ring, exec>> /\ ended' = ended \union {r.trace}
        /\ out' = out \/ out' = Append(out, a0)
    BY <1>5, <1>6 DEF Refuse, rpc_server_send
  <2> QED BY <1>4, <1>5, <2>1
<1>7. CASE out' = out /\ (build_req_Fails(r) \/ (Full /\ enqueue(r)))
  <2>1. UNCHANGED <<ring, exec>> /\ ended' = ended \union {r.trace}
    BY <1>7 DEF build_req_Fails, enqueue
  <2> QED BY <1>4, <1>5, <1>7, <2>1
<1>8. CASE out' = out /\ MultiWorkers /\ Found[r.name] # None /\ ~Full /\ enqueue(r)
  <2>1. /\ q' = [q EXCEPT ![tail] = r] /\ UNCHANGED <<head, ended>> /\ signal
        /\ tail' = IF tail + 1 = QueueSize THEN 0 ELSE tail + 1
    BY <1>8 DEF enqueue
  <2>2. SameHands /\ exec' \in [Executor -> Doing]
    BY <1>1, <2>1, SignalWakes
  <2>3. Placed' /\ InLine' /\ Pending' = Pending
    BY <1>1, <1>2, <1>8, <2>1, <2>2, LineEnqueues
  <2>4. Executor' = Executor
    BY <2>2 DEF SameHands
  <2>5. Rest'
    BY <1>1, <1>2, <1>8, <2>1, <2>3, <2>4, Moved
  <2>6. q' \in [0..(QueueSize - 1) -> Request \union {NoRequest}] /\ tail' \in 0..(QueueSize - 1)
    BY <1>1, <1>3, <2>1, RpcAssumption, SMT, SMTT(30) DEF TypeOK
  <2>7. TypeOK'
    BY <1>1, <1>2, <1>3, <1>8, <2>1, <2>2, <2>4, <2>6 DEF TypeOK, Doing
  <2> QED BY <2>3, <2>5, <2>7 DEF RpcInv, Rest
<1>9. CASE /\ Found[r.name] # None /\ ~MultiWorkers /\ UNCHANGED <<ring, out, ended>>
           /\ exec' = [exec EXCEPT !["notifier"] =
                           [pc |-> "run", req |-> r, service |-> Found[r.name]]]
  <2>1. Placed' /\ InLine' /\ Pending' = Pending
    BY <1>1, <1>2, <1>9, LineRuns
  <2>2. "notifier" \in Executor
    BY <1>9 DEF MultiWorkers
  <2>3. [pc |-> "run", req |-> r, service |-> Found[r.name]] \in Doing
    BY <1>3, DoingIs
  <2>4. Executor' = Executor /\ exec' \in [Executor -> Doing]
    BY <1>1, <1>9, <2>2, <2>3, ExecType, Zenon
  <2>5. Rest'
    BY <1>1, <1>2, <1>9, <2>1, <2>4, Moved
  <2>6. TypeOK'
    BY <1>1, <1>2, <1>3, <1>9, <2>4 DEF TypeOK, Doing, ring
  <2> QED BY <2>1, <2>5, <2>6 DEF RpcInv, Rest
<1>10. \/ Refuse(r)
       \/ out' = out /\ (build_req_Fails(r) \/ (Full /\ enqueue(r)))
       \/ out' = out /\ MultiWorkers /\ Found[r.name] # None /\ ~Full /\ enqueue(r)
       \/ /\ Found[r.name] # None /\ ~MultiWorkers /\ UNCHANGED <<ring, out, ended>>
          /\ exec' = [exec EXCEPT !["notifier"] =
                          [pc |-> "run", req |-> r, service |-> Found[r.name]]]
  BY DEF rpmsg_rpc_server_cb
<1> QED BY <1>6, <1>7, <1>8, <1>9, <1>10

(* A worker locks, waits, or takes a request from the ring. *)
LEMMA WorkerKeeps ==
    ASSUME NEW e \in Executor, RpcInv, dequeue(e) \/ SpuriousWakeup(e) \/ Stick(e)
    PROVE  RpcInv'
<1>1. TypeOK /\ Placed /\ InLine /\ Rest
  BY DEF RpcInv, Rest
<1>2. UNCHANGED <<client, inbox, out, q, tail, open, ended, misused, hurried>>
  BY DEF dequeue, SpuriousWakeup, Stick, ring
<1>3. ASSUME Placed', InLine', Pending' = Pending, Executor' = Executor,
             exec' \in [Executor -> Doing], head' \in 0..(QueueSize - 1)
      PROVE  RpcInv'
  <2>1. Rest'
    BY <1>1, <1>2, <1>3, Moved
  <2>2. TypeOK'
    BY <1>1, <1>2, <1>3 DEF TypeOK, Doing
  <2> QED BY <1>3, <2>1, <2>2 DEF RpcInv, Rest
<1>4. ASSUME UNCHANGED ring, SameHands, exec' \in [Executor -> Doing]
      PROVE  RpcInv'
  <2>1. Placed' /\ InLine' /\ Pending' = Pending
    BY <1>1, <1>2, <1>4, LineStays
  <2>2. Executor' = Executor /\ head' \in 0..(QueueSize - 1)
    BY <1>1, <1>4 DEF SameHands, TypeOK, ring
  <2> QED BY <1>3, <1>4, <2>1, <2>2
<1>5. CASE dequeue(e) /\ head = tail
  <2>1. exec[e] = Ready /\ exec' = [exec EXCEPT ![e] = Asleep] /\ UNCHANGED ring
    BY <1>2, <1>5, ZenonT(40) DEF dequeue, ring
  <2>2. exec[e].pc \notin Busy
    BY <2>1, DoingIs, Zenon
  <2>3. SameHands /\ exec' \in [Executor -> Doing]
    BY <1>1, <2>1, <2>2, DoingIs, HandsKept, ExecType, ZenonT(40)
  <2> QED BY <1>4, <2>1, <2>3
<1>6. CASE dequeue(e) /\ head # tail
  <2> DEFINE x == [pc |-> "run", req |-> q[head], service |-> Found[q[head].name]]
  <2>1. /\ MultiWorkers /\ exec[e] = Ready /\ exec' = [exec EXCEPT ![e] = x]
        /\ head' = IF head + 1 = QueueSize THEN 0 ELSE head + 1
    BY <1>6 DEF dequeue
  <2>2. exec[e].pc \notin Busy
    BY <2>1, DoingIs, ZenonT(40)
  <2>3. Placed' /\ InLine' /\ Pending' = Pending
    BY <1>1, <1>2, <1>6, <2>1, <2>2, LineDequeues, Zenon
  <2>4. q[head] \in Request
    <3>1. Len(Queued) >= 1 /\ Queued[1] = q[head]
      BY <1>1, <1>2, <1>6, <2>1, Dequeued
    <3>2. Len(Queued) \in Nat
      BY <1>1, QueuedIs, RpcAssumption, SMT, SMTT(30)
    <3> QED BY <1>1, <3>1, <3>2, SMT, SMTT(30) DEF Placed
  <2>5. x \in Doing
    BY <2>4, DoingIs, ZenonT(40)
  <2>6. Executor' = Executor /\ exec' \in [Executor -> Doing]
    BY <1>1, <2>1, <2>5, ExecType, ZenonT(40)
  <2>7. head' \in 0..(QueueSize - 1)
    BY <1>1, <2>1, RpcAssumption, SMT, SMTT(30) DEF TypeOK
  <2> QED BY <1>3, <2>3, <2>6, <2>7
<1>7. CASE SpuriousWakeup(e)
  <2>1. exec[e] = Asleep /\ exec' = [exec EXCEPT ![e] = Ready] /\ UNCHANGED ring
    BY <1>7 DEF SpuriousWakeup
  <2>2. exec[e].pc \notin Busy
    BY <2>1, DoingIs
  <2>3. SameHands /\ exec' \in [Executor -> Doing]
    BY <1>1, <2>1, <2>2, DoingIs, HandsKept, ExecType, Zenon
  <2> QED BY <1>4, <2>1, <2>3
<1>8. CASE Stick(e)
  <2>1. exec[e].pc = "run" /\ exec' = [exec EXCEPT ![e].pc = "stuck"] /\ UNCHANGED ring
    BY <1>8 DEF Stick
  <2>2. SameHands
    BY <1>1, <2>1, HandsStuck, Zenon DEF Busy
  <2>3. exec' \in [Executor -> Doing]
    BY <1>1, <2>1, ZenonT(40) DEF TypeOK, Doing
  <2> QED BY <1>4, <2>1, <2>2, <2>3
<1> QED BY <1>5, <1>6, <1>7, <1>8

(* A handler blocks or returns. *)
LEMMA HandleKeeps ==
    ASSUME NEW e \in Executor, RpcInv, Handle(e)
    PROVE  RpcInv'
<1> DEFINE r == exec[e].req
<1>1. TypeOK /\ Placed /\ InLine /\ Rest
  BY DEF RpcInv, Rest
<1>2. /\ exec[e].pc = "run" /\ exec' = [exec EXCEPT ![e] = Ready]
      /\ UNCHANGED <<client, inbox, ring, hurried>>
  BY DEF Handle
<1>3. r \in Request /\ \E a : Returns(r, a)
  BY <1>1, HandlerReturns
<1>4. PICK a : Returns(r, a)
  BY <1>3
<1>5. Placed' /\ InLine' /\ r \in Pending /\ Pending' = Pending \ {r}
  BY <1>1, <1>2, LineDone, Zenon
<1>6. Executor' = Executor /\ exec' \in [Executor -> Doing]
  BY <1>1, <1>2, DoingIs, ExecType, Zenon
<1>7. e \in InHand
  BY <1>2 DEF InHand
<1>8. Rest'
  BY <1>1, <1>2, <1>4, <1>5, <1>6, <1>7, Handled
<1>9. r.trace \in Trace /\ r.handle \in Trace \union {NoTrace}
  BY <1>3, RequestFacts
<1> HIDE DEF r
<1>10. out' \in Seq(Answer)
  BY <1>1, <1>4, SMT, SMTT(30) DEF TypeOK, Returns
<1>11. open' \subseteq Trace /\ ended' \subseteq Trace /\ misused' \subseteq Trace
  BY <1>1, <1>4, <1>9 DEF TypeOK, Returns
<1>12. TypeOK'
  BY <1>1, <1>2, <1>6, <1>10, <1>11 DEF TypeOK, Doing, ring
<1> QED BY <1>5, <1>8, <1>12 DEF RpcInv, Rest

(* Every step keeps the invariant. *)
LEMMA RpcInductive == RpcInv /\ [Next]_vars => RpcInv'
<1> SUFFICES ASSUME RpcInv, [Next]_vars
             PROVE  RpcInv'
  OBVIOUS
<1>1. ASSUME UNCHANGED vars
      PROVE  RpcInv'
  <2>1. TypeOK /\ Placed /\ InLine /\ Rest
    BY DEF RpcInv, Rest
  <2>2. UNCHANGED <<client, inbox, out, ring, exec, open, ended, misused, hurried>>
    BY <1>1 DEF vars
  <2>3. SameHands
    BY <2>2 DEF SameHands, InHand, Executor
  <2>4. Placed' /\ InLine' /\ Pending' = Pending /\ Executor' = Executor
    BY <2>1, <2>2, <2>3, LineStays DEF SameHands
  <2>5. Rest'
    BY <2>1, <2>2, <2>4, Moved
  <2>6. TypeOK'
    BY <2>1, <2>2, <2>4 DEF TypeOK, ring
  <2> QED BY <2>4, <2>5, <2>6 DEF RpcInv, Rest
<1>2. ASSUME NEW t \in Thread, ClientCalls(t)
      PROVE  RpcInv'
  BY <1>2, CallsKeeps
<1>3. CASE ClientReceives \/ \E t \in Thread : ClientTimesOut(t)
  BY <1>3, ClientKeeps
<1>4. CASE rpmsg_rpc_server_cb
  BY <1>4, CallbackKeeps
<1>5. ASSUME NEW e \in Executor, dequeue(e) \/ SpuriousWakeup(e) \/ Stick(e)
      PROVE  RpcInv'
  BY <1>5, WorkerKeeps
<1>6. ASSUME NEW e \in Executor, Handle(e)
      PROVE  RpcInv'
  BY <1>6, HandleKeeps
<1>7. CASE Finished
  BY <1>1, <1>7 DEF Finished
<1> QED BY <1>1, <1>2, <1>3, <1>4, <1>5, <1>6, <1>7 DEF Next

(* The invariant of the RPC server holds always. *)
LEMMA AlwaysRpcInv == Spec => []RpcInv
BY InitRpc, RpcInductive, PTL DEF Spec

(* The requests that wait, those of the ring before those of the endpoint. *)
LEMMA LineIs ==
    ASSUME TypeOK
    PROVE  /\ Len(Queued) \in Nat /\ Len(inbox) \in Nat
           /\ Len(Line) = Len(Queued) + Len(inbox)
           /\ \A i \in 1 .. Len(Queued) : Line[i] = Queued[i]
           /\ \A i \in 1 .. Len(Line) : i \notin 1 .. Len(Queued) =>
                 i - Len(Queued) \in 1 .. Len(inbox) /\ Line[i] = inbox[i - Len(Queued)]
<1> DEFINE R == Request \union {NoRequest}
<1>1. inbox \in Seq(Request)
  BY DEF TypeOK
<1>2. Queued \in Seq(R) /\ inbox \in Seq(R)
  BY <1>1, QueuedIs, RpcAssumption, SMT, SMTT(30)
<1>3. ASSUME NEW s \in Seq(R), NEW t \in Seq(R)
      PROVE  /\ Len(s) \in Nat /\ Len(t) \in Nat
             /\ Len(s \o t) = Len(s) + Len(t)
             /\ \A i \in 1 .. Len(s) : (s \o t)[i] = s[i]
             /\ \A i \in 1 .. Len(s) + Len(t) : i \notin 1 .. Len(s) =>
                   i - Len(s) \in 1 .. Len(t) /\ (s \o t)[i] = t[i - Len(s)]
  <2> HIDE DEF R
  <2>1. Len(s \o t) = Len(s) + Len(t)
    BY SMT, SMTT(30)
  <2>2. \A i \in 1 .. Len(s) : (s \o t)[i] = s[i]
    BY SMT, SMTT(30)
  <2>3. \A i \in 1 .. Len(s) + Len(t) : i \notin 1 .. Len(s) =>
            i - Len(s) \in 1 .. Len(t) /\ (s \o t)[i] = t[i - Len(s)]
    BY SMT, SMTT(30)
  <2> QED BY <2>1, <2>2, <2>3, SMT, SMTT(30)
<1> HIDE DEF R
<1> QED BY <1>2, <1>3 DEF Line

(* A call that is pending, and one that ended, is so once. *)
LEMMA EachOnce == RpcInv => EachCallOnce
<1> SUFFICES ASSUME RpcInv
             PROVE  EachCallOnce
  OBVIOUS
<1>1. TypeOK /\ Placed /\ InLine /\ Accounted
  BY DEF RpcInv
<1>2. ASSUME NEW i \in 1 .. Len(Line), NEW j \in 1 .. Len(Line), i # j
      PROVE  Line[i].trace # Line[j].trace
  <2>1. CASE i \in 1 .. Len(Queued) /\ j \in 1 .. Len(Queued)
    BY <1>1, <1>2, <2>1, LineIs, TracesDiffer, SMT, SMTT(30)
  <2>2. CASE i \in 1 .. Len(Queued) /\ j \notin 1 .. Len(Queued)
    BY <1>1, <2>2, LineIs, TracesDiffer, SMT, SMTT(30)
  <2>3. CASE i \notin 1 .. Len(Queued) /\ j \in 1 .. Len(Queued)
    BY <1>1, <2>3, LineIs, TracesDiffer, ZenonT(40)
  <2>4. CASE i \notin 1 .. Len(Queued) /\ j \notin 1 .. Len(Queued)
    <3>1. i - Len(Queued) # j - Len(Queued)
      BY <1>1, <1>2, LineIs, SMT, SMTT(30)
    <3>2. /\ i - Len(Queued) \in 1 .. Len(inbox) /\ Line[i] = inbox[i - Len(Queued)]
          /\ j - Len(Queued) \in 1 .. Len(inbox) /\ Line[j] = inbox[j - Len(Queued)]
      BY <1>1, <2>4, LineIs
    <3> QED BY <1>1, <3>1, <3>2, TracesDiffer, Zenon
  <2> QED BY <2>1, <2>2, <2>3, <2>4
<1>3. ASSUME NEW e \in InHand, NEW i \in 1 .. Len(Line)
      PROVE  exec[e].req.trace # Line[i].trace
  <2>1. CASE i \in 1 .. Len(Queued)
    BY <1>1, <2>1, LineIs, TracesDiffer, SMT, SMTT(30)
  <2>2. CASE i \notin 1 .. Len(Queued)
    BY <1>1, <2>2, LineIs, TracesDiffer, SMT, SMTT(30)
  <2> QED BY <2>1, <2>2
<1>4. \A e \in InHand : \A f \in InHand \ {e} : exec[e].req.trace # exec[f].req.trace
  BY <1>1, TracesDiffer
<1> QED BY <1>1, <1>2, <1>3, <1>4 DEF EachCallOnce

(* The line is the order in which each thread made its calls. *)
LEMMA InOrder == RpcInv => TakenInOrder
<1> SUFFICES ASSUME RpcInv, NEW j \in 1 .. Len(Line)
             PROVE  /\ \A i \in 1 .. (j - 1) : Older(Line[i], Line[j])
                    /\ \A e \in InHand : Older(exec[e].req, Line[j])
  BY DEF TakenInOrder
<1> DEFINE n == Len(Queued)
<1>1. TypeOK /\ Placed /\ InLine
  BY DEF RpcInv
<1>2. /\ n \in Nat /\ Len(inbox) \in Nat /\ Len(Line) = n + Len(inbox)
      /\ \A i \in 1 .. n : Line[i] = Queued[i]
      /\ \A i \in 1 .. Len(Line) : i \in 1 .. n \/ (i - n \in 1 .. Len(inbox) /\ Line[i] = inbox[i - n])
  BY <1>1, LineIs
<1> HIDE DEF n
<1>5. \A e \in InHand : Older(exec[e].req, Line[j])
  BY <1>1, <1>2, ZenonT(40) DEF InLine, n
<1>6. ASSUME NEW i \in 1 .. (j - 1)
      PROVE  Older(Line[i], Line[j])
  <2>1. i \in 1 .. Len(Line) /\ i < j /\ j \in Int /\ i \in Int
    BY <1>2, SMT, SMTT(30)
  <2>2. CASE j \in 1 .. n
    <3>1. i \in 1 .. n
      BY <1>2, <2>1, <2>2, SMT, SMTT(30)
    <3> QED BY <1>1, <1>2, <2>1, <2>2, <3>1 DEF InLine, n
  <2>3. CASE i \in 1 .. n /\ j \notin 1 .. n
    BY <1>1, <1>2, <2>3 DEF InLine, n
  <2>4. CASE i \notin 1 .. n /\ j \notin 1 .. n
    <3>1. i - n < j - n
      BY <1>2, <2>1, SMT, SMTT(30)
    <3>2. /\ i - n \in 1 .. Len(inbox) /\ Line[i] = inbox[i - n]
          /\ j - n \in 1 .. Len(inbox) /\ Line[j] = inbox[j - n]
      BY <1>2, <2>1, <2>4
    <3> QED BY <1>1, <3>1, <3>2 DEF InLine
  <2> QED BY <2>2, <2>3, <2>4
<1> QED BY <1>5, <1>6

(***************************************************************************)
(* The theorems.  Every call is in one place: waiting, in the ring, in the *)
(* hands of one thread, or done with (__enqueue(), __dequeue(),            *)
(* worker_thread()).                                                       *)
(***************************************************************************)
THEOREM CallsAreCarriedOutOnce == Spec => []EachCallOnce
BY AlwaysRpcInv, EachOnce, PTL

(***************************************************************************)
(* The calls of a thread are taken up in the order it made them            *)
(* (rpmsg_rpc_server_cb(), the ring of rpc_workers.c).                     *)
(***************************************************************************)
THEOREM CallsAreTakenInOrder == Spec => []TakenInOrder
BY AlwaysRpcInv, InOrder, PTL

(***************************************************************************)
(* Only a FILE that its client closed in haste is used after it was        *)
(* closed, and without workers none is (rpc_backend.c, rpc_workers.c).     *)
(***************************************************************************)
THEOREM FilesOutliveTheirUses == Spec => []MisusedOnlyInHaste
<1>1. RpcInv => MisusedOnlyInHaste
  BY DEF RpcInv
<1> QED BY <1>1, AlwaysRpcInv, PTL

(***************************************************************************)
(* Every function but setvbuf is dispatched to its own handler, at once or *)
(* after its time in the ring (find_service(), rpc_backend.c).             *)
(***************************************************************************)
THEOREM CallsReachTheirHandlers == Spec => []Dispatched
<1>1. RpcInv => Dispatched
  BY FoundHome DEF RpcInv, Placed, Dispatched
<1> QED BY <1>1, AlwaysRpcInv, PTL

=============================================================================
