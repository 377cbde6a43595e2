------------------------------- MODULE Loading -------------------------------
(* The two commands that load rows of Registry from files: load_geo_data rewrites the regions,  *)
(* districts and mahallas, each statement on its own; load_chilonzor_data adds or updates the     *)
(* employees of an organisation from a sheet, in one transaction.  One of them runs at a time,    *)
(* beside the requests of Registry.                                                               *)
EXTENDS Registry, Sequences

CONSTANTS
  GeoFile,   \* GeoFile[t] : the features of the file for table t, in order
  InitialCode, InitialLogin,
  Sheet      \* the PINFLs of the sheet, None for a row without

VARIABLES
  code,      \* the codes of regions, districts and mahallas; None: a code of no file
  login,     \* the PINFL that is a user's username, or None
  job        \* the command under way

loadingVars == <<code, login, job>>

Levels == <<"region", "district", "mahalla">>
LoadedTables == {"region", "district", "mahalla"}

Features(t) == {GeoFile[t][k] : k \in DOMAIN GeoFile[t]}

\* No feature is in a file twice: two of one code differ in what is left out here (name, boundary).
ASSUME FilesAssumption ==
  /\ \A t \in LoadedTables :
       /\ GeoFile[t] \in Seq(Features(t))
       /\ \A i, k \in DOMAIN GeoFile[t] : GeoFile[t][i] = GeoFile[t][k] => i = k
  /\ Sheet \in Seq(Pinfls \cup {None})
  /\ InitialCode = [r \in Rows |-> InitialCode[r]]

NoJob == [step |-> "none"]
\* No request is under way; none was, or has begun, since the command started.
Alone == \A c \in Clients : req[c] = Idle
Undisturbed == job.alone /\ spent = job.since /\ Alone

StartJob(j) ==
  /\ job.step \in {"none", "loaded", "imported"}
  /\ spent < MaxRequests /\ spent' = spent + 1
  /\ job' = j
  /\ UNCHANGED <<db, used, roles, audit, first, req, code, login>>

------------------------------------------------------------------------------
(* load_geo_data *)

\* All three tables, or --only one.
StartLoad ==
  \E plan \in {Levels} \cup {<<t>> : t \in LoadedTables} :
    StartJob([step |-> "clear", todo |-> plan, plan |-> plan, alone |-> Alone, since |-> spent + 1])

\* Variant: the rows there are stay.
ClearTable_Kept ==
  /\ job.step = "clear"
  /\ job' = [job EXCEPT !.step = "parents"]
  /\ UNCHANGED <<registryVars, code, login>>

\* Model.objects.all().delete()
ClearTable ==
  /\ job.step = "clear"
  /\ db' = Without(In(Head(job.todo)))
  /\ job' = [job EXCEPT !.step = "parents"]
  /\ UNCHANGED <<used, roles, audit, first, req, spent, code, login>>

\* The regions, for mahallas also the districts, are read; what was read of one query or the
\* other is taken as one.
ReadParents ==
  /\ job.step = "parents"
  /\ LET t == Head(job.todo) IN
     job' = [step |-> "create", todo |-> job.todo, plan |-> job.plan, alone |-> job.alone,
             since |-> job.since, features |-> GeoFile[t],
             known |-> CASE t = "region" -> {} [] t = "district" -> In("region")
                         [] OTHER -> In("region") \cup In("district")]
  /\ UNCHANGED <<registryVars, code, login>>

\* The row with that code of those read; of several, any.  None when there is none.
Coded(t, x) ==
  LET found == {r \in job.known : x # None /\ Table[r] = t /\ code[r] = x}
  IN  IF found = {} THEN {None} ELSE found

Content(t, feature, region, district) ==
  CASE t = "region" -> Blank(t)
    [] t = "district" -> [region |-> region]
    [] OTHER -> [region |-> region, district |-> district]

\* A district without its region, a mahalla without its district is skipped; a parent that is
\* gone by now breaks the foreign key and ends the command.
CreateRow ==
  /\ job.step = "create" /\ job.features # << >>
  /\ LET t == Head(job.todo)
         f == Head(job.features)
     IN
     \E region \in Coded("region", f.region), district \in Coded("district", f.district) :
       LET new == Content(t, f, region, district) IN
       IF (t = "district" /\ region = None) \/ (t = "mahalla" /\ district = None)
       THEN /\ job' = [job EXCEPT !.features = Tail(@)]
            /\ UNCHANGED <<db, used, first, code>>
       ELSE IF Fits(CHOOSE x \in RowsOf[t] : TRUE, new)
       THEN /\ New(t) # {}
            /\ LET r == CHOOSE x \in New(t) : TRUE IN
               /\ db' = [db EXCEPT ![r] = new] /\ first' = [first EXCEPT ![r] = new]
               /\ used' = used \cup {r} /\ code' = [code EXCEPT ![r] = f.code]
            /\ job' = [job EXCEPT !.features = Tail(@)]
       ELSE job' = NoJob /\ UNCHANGED <<db, used, first, code>>
  /\ UNCHANGED <<roles, audit, req, spent, login>>

NextTable ==
  /\ job.step = "create" /\ job.features = << >>
  /\ job' = [step |-> IF Len(job.todo) = 1 THEN "loaded" ELSE "clear", todo |-> Tail(job.todo),
             plan |-> job.plan, alone |-> job.alone, since |-> job.since]
  /\ UNCHANGED <<registryVars, code, login>>

------------------------------------------------------------------------------
(* load_chilonzor_data *)

Listed == {Sheet[i] : i \in DOMAIN Sheet} \ {None}
Holders(p) == {u \in In("user") : db[u].pinfl = p}

\* What is looked up for the sheet: who is there already, and the department, position and rank of
\* the given names, None where get_or_create will create one.
StartImport ==
  \E o \in In("organization"), update \in BOOLEAN :
  \E d \in {x \in In("department") : db[x].organization = o} \cup {None}, n \in In("special_rank") \cup {None} :
  \E q \in {x \in In("position") : d # None /\ db[x].department = d} \cup {None} :
    StartJob([step |-> "sheet", org |-> o, department |-> d, position |-> q, special_rank |-> n,
              present |-> {p \in Listed : Holders(p) # {}}, update |-> update,
              alone |-> Alone, since |-> spent + 1])

Added == Listed \ job.present
\* Who was found, and still is.
Updated == IF job.update THEN {u \in In("user") : db[u].pinfl \in job.present} ELSE {}

\* A unique key refuses a user (somebody else took the PINFL or the username meanwhile, or kept
\* the username when the PINFL was corrected), or a row that was found is gone at the commit.
Refused ==
  \/ \E u \in In("user") : (db[u].pinfl \in Added \/ login[u] \in Added)
  \/ \E r \in {job.org, job.department, job.position, job.special_rank} \ {None} : ~Exists(r)

\* get_or_create
Named(t, found) == IF found # None THEN {found} ELSE New(t)

Placed(d, q, n) == [organization |-> job.org, department |-> d, position |-> q, special_rank |-> n]
Owner(user, u) == CHOOSE p \in Added : user[p] = u
\* What is written of a row.
Saved(d, q, n, user, r) ==
  CASE r \in {user[p] : p \in Added} ->
         WithHash("user", Over([pinfl |-> Owner(user, r)], Over(Placed(d, q, n), Blank("user"))))
    [] r \in Updated -> Over(Placed(d, q, n), db[r])
    [] r = d -> [organization |-> job.org]
    [] r = q -> [department |-> d]
    [] OTHER -> Blank("special_rank")

\* The transaction is one step: all of it, or nothing when a row was refused, although the rows
\* before it were counted.
RunImport ==
  /\ job.step = "sheet"
  /\ IF Refused \/ (Added = {} /\ ~job.update)
     THEN /\ job' = IF Refused THEN NoJob ELSE [job EXCEPT !.step = "imported"]
          /\ UNCHANGED <<db, used, roles, audit, first, login>>
     ELSE \E d \in Named("department", job.department), q \in Named("position", job.position),
             n \in Named("special_rank", job.special_rank), user \in [Added -> New("user")] :
          /\ \A p, s \in Added : user[p] = user[s] => p = s
          /\ LET born == {user[p] : p \in Added}
                 saved == born \cup Updated \cup ({d, q, n} \ {job.department, job.position, job.special_rank})
                 placed == Placed(d, q, n)
             IN  /\ db' = [r \in Rows |-> IF r \in saved THEN Saved(d, q, n, user, r) ELSE db[r]]
                 /\ used' = used \cup saved
                 /\ first' = [r \in Rows |-> IF r \in used THEN first[r] ELSE db'[r]]
                 /\ login' = [u \in DOMAIN login |-> IF u \in born THEN Owner(user, u) ELSE login[u]]
                 /\ roles' = [u \in DOMAIN roles |-> IF u \in born THEN {"OFFICER"} ELSE roles[u]]
                 /\ audit' = audit \cup UNION {{<<u, f, placed[f]>> : f \in {g \in DOMAIN placed : placed[g] # db[u][g]}} :
                                                 u \in Updated}
          /\ job' = [job EXCEPT !.step = "imported"]
  /\ UNCHANGED <<req, spent, code>>

\* The command is stopped, or the connection lost.
JobDies ==
  /\ job.step \in {"clear", "parents", "create", "sheet"}
  /\ job' = NoJob
  /\ UNCHANGED <<registryVars, code, login>>

LoadingInit ==
  /\ code = InitialCode
  /\ login = InitialLogin
  /\ job = NoJob

LoadingNext ==
  \/ StartLoad \/ ClearTable \/ ReadParents \/ CreateRow \/ NextTable
  \/ StartImport \/ RunImport \/ JobDies

------------------------------------------------------------------------------
(* Properties *)

CodeOf(r) == IF r = None THEN None ELSE code[r]

\* A load that no request overlapped leaves in each of its tables exactly what the file says of
\* known parents, under them, whatever an earlier load that was cut short had left there.
LoadRestores ==
  job.step = "loaded" /\ Undisturbed =>
    \A i \in DOMAIN job.plan :
      LET t == job.plan[i]
          codes(p) == {code[r] : r \in In(p)} \ {None}
          wanted == {f \in Features(t) :
                       /\ t = "district" => f.region \in codes("region")
                       /\ t = "mahalla" => f.district \in codes("district")}
      IN  /\ Cardinality(In(t)) = Cardinality(wanted)
          /\ \A f \in wanted : \E r \in In(t) :
               /\ code[r] = f.code
               /\ t = "district" => CodeOf(db[r].region) = f.region
               /\ t = "mahalla" => CodeOf(db[r].district) = f.district
               /\ (t = "mahalla" /\ f.region \in codes("region")) => CodeOf(db[r].region) = f.region

\* An import that says it is done has everybody on the sheet in the database, who was not left
\* alone in one department and position of the organisation.
ImportComplete ==
  job.step = "imported" /\ Undisturbed =>
    \A p \in Listed : \E u \in Holders(p) :
      job.update \/ p \notin job.present =>
        /\ db[u].organization = job.org
        /\ db[db[u].department].organization = job.org
        /\ db[db[u].position].department = db[u].department

\* A deletion takes the row asked for and what belonged to it when it was collected, directly or
\* through others: never a user, and nothing of a user who stays but seats and offices; a load
\* takes the table that it writes anew.
GoesOnlyWithOwner ==
  [][\A r \in Rows : Exists(r) /\ ~Exists(r)' =>
       \/ job.step = "clear" /\ Table[r] = Head(job.todo)
       \/ \E c \in Clients :
            /\ req[c].step = "purge" /\ req'[c] = Idle
            /\ \/ r = req[c].row
               \/ \E o \in DOMAIN req[c].seen :
                    /\ Table[o] \in Owners(Table[r])
                    /\ \E f \in DOMAIN req[c].seen[r] : req[c].seen[r][f] = o]_<<registryVars, loadingVars>>
===============================================================================
