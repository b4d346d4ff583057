----------------------------- MODULE QueryBuilder -----------------------------
(***************************************************************************)
(* Conditions, order and pages of the listing queries (src/api/builder.ts  *)
(* and src/api/namespaces/utils.ts).                                       *)
(*                                                                         *)
(* A request is a record with the parameters it names, parsed: lists are   *)
(* sets, numbers integers.  filterQueryArgs drops empty parameters and     *)
(* refuses others, so a record holds only valid values.  A condition holds *)
(* where SQL returns TRUE; a comparison with NULL does not.  Lists have at *)
(* most ten entries (longer ones are compared by a subquery).              *)
(***************************************************************************)
EXTENDS Integers, FiniteSets, Sequences

LOCAL INSTANCE SequencesExt

CONSTANT Null

Has(request, parameter) == parameter \in DOMAIN request
Arg(request, parameter, default) == IF Has(request, parameter) THEN request[parameter] ELSE default

EqualMany(column, values) == column # Null /\ column \in values

(* One value is compared with "!=", whatever includeNull says.             *)
NotMany(column, values, includeNull) ==
  \/ column # Null /\ column \notin values
  \/ column = Null /\ includeNull /\ Cardinality(values) > 1

(* ORDER BY column order NULLS LAST, id ASC *)
OrderBy(column, order) ==
  LET Before(x, y) ==
        \/ column[x] # Null /\ column[y] = Null
        \/ /\ column[x] # Null /\ column[y] # Null
           /\ IF order = "asc" THEN column[x] < column[y] ELSE column[x] > column[y]
        \/ column[x] = column[y] /\ x < y
  IN  SetToSortSeq(DOMAIN column, Before)

Smaller(a, b) == IF a < b THEN a ELSE b
Limit(rows, n) == SubSeq(rows, 1, Smaller(n, Len(rows)))
Paginate(rows, page, limit) ==
  SubSeq(rows, (page - 1) * limit + 1, Smaller(page * limit, Len(rows)))

PageOf(request, rows) == Paginate(rows, Arg(request, "page", 1), Arg(request, "limit", 100))

BoundaryFilter(request, id, date) ==
  /\ Has(request, "ids") => EqualMany(id, request.ids)
  /\ Has(request, "lower_bound") => id >= request.lower_bound
  /\ Has(request, "upper_bound") => id < request.upper_bound
  /\ Has(request, "before") => date < request.before
  /\ Has(request, "after") => date > request.after
=============================================================================
