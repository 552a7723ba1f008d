-------------------------------- MODULE Tenancy --------------------------------
(***************************************************************************)
(* kernel/tenant.py: the identities the isolation boundary, the quota      *)
(* manager and the runtime share.  Only valid TenantContexts (non-empty    *)
(* tenant and agent ids) are values here: set_tenant_context raises on any *)
(* other and leaves everything as it was.                                  *)
(***************************************************************************)

CONSTANTS
    Tenants,        \* tenant ids
    Agents,         \* agent ids
    NoContext       \* no TenantContext has been set

Contexts == [tenant_id : Tenants, agent_id : Agents]

ASSUME TenancyAssumption == NoContext \notin Contexts

================================================================================
