------------------------------- MODULE Status -------------------------------
(***************************************************************************)
(* amongoc_status: a code in a category.  What goes wrong inside an        *)
(* operation is an exception; the coroutine of the operation turns it into *)
(* the status that the handler receives.                                   *)
(***************************************************************************)
EXTENDS Naturals

Status(category, code) == [category |-> category, code |-> code]
Categories ==
    {"generic", "system", "netdb", "addrinfo", "io", "server", "client", "tls", "unknown"}

\* Generic and system codes.
ENOENT == 2
ENOMEM == 12
EINVAL == 22
EPROTO == 71
ECONNRESET == 104
EISCONN == 106
connection_closed == 1
invalid_update_document == 1
write_errors == 1
BadValue == 2
CursorNotFound == 43
DocumentValidationFailure == 121
DuplicateKey == 11000

okay == Status("generic", 0)

\* No category has an is_error of its own.
amongoc_is_error(st) == st.code # 0

\* asio::error::misc_errors
Misc == [already_open |-> 1, eof |-> 2, not_found |-> 3, fd_set_failure |-> 4]

\* status::from(std::error_code)
from(ec) ==
    IF ec.category = "asio.misc" /\ ec.code = Misc.already_open THEN Status("generic", EISCONN)
    ELSE IF ec.category = "asio.misc" /\ ec.code = Misc.eof THEN Status("io", connection_closed)
    ELSE IF ec.category = "asio.misc" /\ ec.code = Misc.not_found THEN Status("generic", ENOENT)
    ELSE IF ec.category = "asio.misc" /\ ec.code = Misc.fd_set_failure THEN Status("generic", EINVAL)
    ELSE IF ec.category \in Categories THEN ec
    ELSE Status("unknown", ec.code)

\* emitter_promise::unhandled_exception()
server_error(code) == [type |-> "server_error", code |-> Status("server", code)]
system_error(ec) == [type |-> "system_error", code |-> ec]
exception(st) == [type |-> "exception", code |-> st]
bad_alloc == [type |-> "bad_alloc", code |-> okay]
unhandled_exception(e) ==
    CASE e.type \in {"server_error", "system_error"} -> from(e.code)
      [] e.type = "exception" -> e.code
      [] e.type = "bad_alloc" -> Status("generic", ENOMEM)
=============================================================================
