----------------------------- MODULE RpcHandlers -----------------------------
(***************************************************************************)
(* The service table of the RPC server and what its handlers do, as far as *)
(* the server is concerned (mica/micad/services/rpc/rpc_backend.c).        *)
(*                                                                         *)
(* Every handler carries out the call of its name on the host and answers  *)
(* with the caller's trace id.  They differ in:                            *)
(*   id       the function id that selects it in the service table; an id  *)
(*            is written as the first name rpc_internal_model.h gives it   *)
(*   reply    the id in its answer, or None if it sends no answer          *)
(*   rejects  it may refuse the arguments, without an answer               *)
(*   file     what it does with the FILE its handle stands for: nothing,   *)
(*            "opens", "uses", "closes" or "reopens" it                    *)
(***************************************************************************)
EXTENDS Naturals, Sequences

None == "none"

Call(name) ==
    [name |-> name, id |-> name, reply |-> name, rejects |-> FALSE, file |-> None]

Silent(row) == [row EXCEPT !.reply = None]
Picky(row) == [row EXCEPT !.rejects = TRUE]
On(name, what) == [Call(name) EXCEPT !.file = what]

Calls(names) == {Call(n) : n \in names}
Uses(names) == {On(n, "uses") : n \in names}

-----------------------------------------------------------------------------
DescriptorCalls == Calls({"open", "close", "read", "write", "lseek", "fcntl"})

(***************************************************************************)
(* unlink answers with the id of ioctl; freeaddrinfo does nothing at all;  *)
(* getaddrinfo checks the offsets in its buffer.                           *)
(***************************************************************************)
ControlCalls ==
    {Call("ioctl"), [Call("unlink") EXCEPT !.reply = "ioctl"],
     Silent(Call("freeaddrinfo")), Picky(Call("getaddrinfo"))}

HostCalls == Calls({"gethostbyaddr", "gethostbyname", "getpeername", "getsockname"})

ConnectionCalls == Calls({"accept", "bind", "connect", "listen", "recv"})

SocketCalls ==
    Calls({"recvfrom", "send", "sendto", "setsockopt", "shutdown", "socket"})

WaitCalls == Calls({"poll", "select", "gethostname", "getsockopt"})

(***************************************************************************)
(* printf writes to the server's own stream.                               *)
(***************************************************************************)
StreamCalls ==
    {Silent(Call("printf")), Call("getdents64"), On("fopen", "opens"),
     On("fclose", "closes"), On("fread", "uses")}

TextCalls ==
    Uses({"fwrite", "fputs", "fgets", "feof"})
        \union {On("freopen", "reopens"), Silent(On("fprintf", "uses"))}

CharCalls ==
    Uses({"getc", "ferror", "getc_unlocked"})
        \union {On("pclose", "closes"), On("tmpfile", "opens"),
                Silent(On("clearerr", "uses"))}

SeekCalls ==
    Uses({"ungetc", "fseeko", "ftello", "fseek", "ftell"})
        \union {On("popen", "opens")}

NameCalls ==
    Calls({"rename", "remove", "mkstemp"}) \union Uses({"fflush", "getwc", "putwc"})

(***************************************************************************)
(* getcwd refuses a size greater than its buffer.                          *)
(***************************************************************************)
StatCalls ==
    Uses({"putc", "ungetwc"}) \union Calls({"stat", "lstat"})
        \union {Picky(Call("getcwd"))}

(***************************************************************************)
(* rpc_internal_model.h gives fileno and setvbuf the same id.              *)
(***************************************************************************)
HandleCalls ==
    Calls({"fstat", "readlink", "system"})
        \union {On("fdopen", "opens"), On("fileno", "uses"),
                [On("setvbuf", "uses") EXCEPT !.id = "fileno", !.reply = "fileno"]}

PathCalls == Calls({"access", "dup2", "mkfifo", "chmod", "chdir", "mkdir", "rmdir"})

MiscCalls ==
    Calls({"pipe", "ifnameindex", "putchar", "gaistrerror"})
        \union Uses({"fscanfx"})

VectorCalls == Calls({"accept4", "writev"})

Handlers ==
    UNION {DescriptorCalls, ControlCalls, HostCalls, ConnectionCalls, SocketCalls,
           WaitCalls, StreamCalls, TextCalls, CharCalls, SeekCalls, NameCalls,
           StatCalls, HandleCalls, PathCalls, MiscCalls, VectorCalls}

HandlerOf ==
    [n \in {h.name : h \in Handlers} |-> CHOOSE h \in Handlers : h.name = n]

Handler(name) == HandlerOf[name]

-----------------------------------------------------------------------------
(***************************************************************************)
(* service_table, in the order find_service() searches it.                 *)
(***************************************************************************)
service_table == <<
    "open", "read", "write", "close", "lseek", "fcntl", "ioctl", "unlink",
    "getdents64", "freeaddrinfo", "getaddrinfo", "gethostbyaddr",
    "gethostbyname", "poll", "getpeername", "gethostname", "getsockname",
    "getsockopt", "select", "accept", "bind", "connect", "listen", "recv",
    "recvfrom", "send", "sendto", "setsockopt", "shutdown", "socket", "fopen",
    "fclose", "fread", "fwrite", "freopen", "fputs", "fgets", "feof", "fprintf",
    "getc", "ferror", "getc_unlocked", "pclose", "tmpfile", "clearerr", "popen",
    "ungetc", "fseeko", "ftello", "fseek", "ftell", "rename", "remove",
    "mkstemp", "stat", "lstat", "getcwd", "printf", "fflush", "getwc", "putwc",
    "putc", "ungetwc", "fstat", "fdopen", "fileno", "setvbuf", "system",
    "readlink", "access", "dup2", "mkfifo", "chmod", "chdir", "mkdir", "rmdir",
    "pipe", "fscanfx", "ifnameindex", "putchar", "gaistrerror", "accept4",
    "writev" >>

IdAt == [i \in 1..Len(service_table) |-> Handler(service_table[i]).id]

(***************************************************************************)
(* The first entry of the table with this id, or None.                     *)
(***************************************************************************)
find_service_Last(id) ==
    LET hits == {i \in 1..Len(service_table) : IdAt[i] = id}
    IN  IF hits = {} THEN None
        ELSE service_table[CHOOSE i \in hits : \A j \in hits : i >= j]

find_service(id) ==
    LET hits == {i \in 1..Len(service_table) : IdAt[i] = id}
    IN  IF hits = {} THEN None
        ELSE service_table[CHOOSE i \in hits : \A j \in hits : i <= j]

=============================================================================
